---- MODULE Spec2Model ----
(***************************************************************************)
(* Query-routing agent of the forest-fire emergency dashboard:             *)
(*   - ForestFireEmergencyDatabase / ForestFireDatabaseTool /              *)
(*     COVID19DatabaseTool : the data access gateway (execute_query and    *)
(*     the custom-query entry points),                                     *)
(*   - ForestFireAgent (final_forest_fire_agent_clean.py): backend         *)
(*     selection at construction, query routing, fallback formatter and    *)
(*     the conversation log.                                               *)
(* Text is handled character by character, so that strip, upper/lower,     *)
(* startswith and substring tests are computed, not assumed.               *)
(***************************************************************************)
EXTENDS Integers, Sequences, FiniteSets, TLC

VARIABLES
    pc,                    \* position of the agent: construction steps, then "ready"
    api_key,               \* ForestFireAgent.api_key
    mode,                  \* ForestFireAgent.mode
    gemini_model,          \* ForestFireAgent.gemini_model (vendor SDK handle)
    agent,                 \* ForestFireAgent.agent (agent framework handle)
    conversation_history,  \* ForestFireAgent.conversation_history
    connection,            \* the gateway's self.connection
    opened,                \* connections the gateway opened and nothing closed yet
    store,                 \* contents of storage.db: table name -> rows
    dbReachable,           \* whether sqlite3.connect(db_path) succeeds
    probeLog,              \* what _initialize_ai found for each backend it came to, in order
    lastCall               \* what the most recent operation did and returned

vars == <<pc, api_key, mode, gemini_model, agent, conversation_history,
          connection, opened, store, dbReachable, probeLog, lastCall>>

(***************************************************************************)
(* Bounds of the model.                                                    *)
(***************************************************************************)
MaxHistory == 1

(***************************************************************************)
(* Text primitives (Python str methods).  Python strings are TLA+ strings; *)
(* Len, SubSeq and \o act on them character by character.                  *)
(***************************************************************************)
UpperChars == "ABCDEFGHIJKLMNOPQRSTUVWXYZ"

LowerChars == "abcdefghijklmnopqrstuvwxyz"

Whitespace == {" ", "\t", "\n", "\r"}

Char(s, i) == SubSeq(s, i, i)

Letters == 1..Len(UpperChars)

\* upper-case letter -> lower-case letter, and back
LowerOf == [c \in {Char(UpperChars, i) : i \in Letters} |->
               Char(LowerChars, CHOOSE i \in Letters : Char(UpperChars, i) = c)]

UpperOf == [c \in {Char(LowerChars, i) : i \in Letters} |->
               Char(UpperChars, CHOOSE i \in Letters : Char(LowerChars, i) = c)]

LowerChar(c) == IF c \in DOMAIN LowerOf THEN LowerOf[c] ELSE c

UpperChar(c) == IF c \in DOMAIN UpperOf THEN UpperOf[c] ELSE c

RECURSIVE Lower(_)
\* str.lower()
Lower(s) == IF s = "" THEN "" ELSE LowerChar(Char(s, 1)) \o Lower(SubSeq(s, 2, Len(s)))

RECURSIVE Upper(_)
\* str.upper()
Upper(s) == IF s = "" THEN "" ELSE UpperChar(Char(s, 1)) \o Upper(SubSeq(s, 2, Len(s)))

SetMin(S) == CHOOSE x \in S : \A y \in S : x <= y

SetMax(S) == CHOOSE x \in S : \A y \in S : x >= y

\* str.strip(): drop leading and trailing whitespace
Strip(s) ==
    LET solid == {i \in 1..Len(s) : Char(s, i) \notin Whitespace}
    IN  IF solid = {} THEN "" ELSE SubSeq(s, SetMin(solid), SetMax(solid))

\* str.startswith(p)
StartsWith(s, p) == Len(s) >= Len(p) /\ SubSeq(s, 1, Len(p)) = p

\* "w in s" for strings
Contains(s, w) ==
    \E i \in 1..(Len(s) - Len(w) + 1) : SubSeq(s, i, i + Len(w) - 1) = w

\* any(word in s for word in words)
ContainsAny(s, words) == \E w \in words : Contains(s, w)

\* first whitespace-delimited token of s (s.split()[0]), "" when there is none
FirstToken(s) ==
    LET t == Strip(s)
        ws == {i \in 1..Len(t) : Char(t, i) \in Whitespace}
    IN  IF ws = {} THEN t ELSE SubSeq(t, 1, SetMin(ws) - 1)

\* last whitespace-delimited token of s
LastToken(s) ==
    LET t == Strip(s)
        ws == {i \in 1..Len(t) : Char(t, i) \in Whitespace}
    IN  IF ws = {} THEN t ELSE SubSeq(t, SetMax(ws) + 1, Len(t))

(***************************************************************************)
(* Python values.  Every value that may be None is a record with a type    *)
(* field, so that None can be told from it.                                *)
(***************************************************************************)
None == [type |-> "NoneType"]

PyInt(n) == [type |-> "int", v |-> n]

OpenConnection == [type |-> "Connection"]

(***************************************************************************)
(* The SQLite store behind storage.db and the statements issued on it.     *)
(***************************************************************************)
TableNames == {"disease_case", "pr_person", "gis_location", "asset_asset"}

\* a database file without the Sahana tables (what sqlite3.connect creates)
StoreNoSchema == [t \in {} |-> <<>>]

StoreEmpty == [t \in TableNames |-> <<>>]

StoreSeeded ==
    [t \in TableNames |->
        CASE t = "disease_case" ->
                <<[id |-> 1, case_number |-> "C-001", illness_status |-> "Recovered",
                   hospitalized |-> "F", diagnosis_date |-> 1],
                  [id |-> 2, case_number |-> "C-002", illness_status |-> "Recovered",
                   hospitalized |-> "T", diagnosis_date |-> 2],
                  [id |-> 3, case_number |-> "C-003", illness_status |-> "Deceased",
                   hospitalized |-> "T", diagnosis_date |-> 3]>>
          [] t = "pr_person" ->
                <<[id |-> 1, first_name |-> "Ana", last_name |-> "Ash", pe_label |-> "P1",
                   created_on |-> 1],
                  [id |-> 2, first_name |-> "Bo", last_name |-> "Elm", pe_label |-> "NULL",
                   created_on |-> 2]>>
          [] t = "gis_location" ->
                <<[id |-> 1, name |-> "Pine Ridge Township", population |-> 900]>>
          [] OTHER ->
                <<[id |-> 1, number |-> "E-7", type |-> 2]>>]

Stores == {StoreNoSchema, StoreEmpty, StoreSeeded}

\* COUNT(*): never NULL
CountAll(rows) == PyInt(Len(rows))

\* COUNT(CASE WHEN f IS NOT NULL THEN 1 END): never NULL
CountNotNull(rows, f) == PyInt(Cardinality({i \in 1..Len(rows) : rows[i][f] # "NULL"}))

\* SUM(CASE WHEN f = v THEN 1 ELSE 0 END): NULL over zero rows
SumWhere(rows, f, v) ==
    IF Len(rows) = 0 THEN None ELSE PyInt(Cardinality({i \in 1..Len(rows) : rows[i][f] = v}))

RECURSIVE SumField(_, _)
SumField(rows, f) == IF rows = <<>> THEN 0 ELSE rows[1][f] + SumField(Tail(rows), f)

Limit(rows, n) == SubSeq(rows, 1, IF Len(rows) < n THEN Len(rows) ELSE n)

\* place of row i under ORDER BY on the integer keys (rows with equal keys keep
\* their stored order)
Rank(keys, i) ==
    Cardinality({j \in 1..Len(keys) : keys[j] < keys[i] \/ (keys[j] = keys[i] /\ j < i)}) + 1

\* ORDER BY keys ASC
SortedBy(rows, keys) ==
    [k \in 1..Len(rows) |-> rows[CHOOSE i \in 1..Len(rows) : Rank(keys, i) = k]]

\* ORDER BY f DESC on an integer column f
SortedDesc(rows, f) == SortedBy(rows, [i \in 1..Len(rows) |-> 0 - rows[i][f]])

\* ORDER BY f ASC on an integer column f
SortedAsc(rows, f) == SortedBy(rows, [i \in 1..Len(rows) |-> rows[i][f]])

RECURSIVE Like(_, _)
\* sqlite's "s LIKE p": % is any run of characters, _ any one character,
\* letters compare without case
Like(s, p) ==
    IF p = "" THEN s = ""
    ELSE IF Char(p, 1) = "%"
    THEN Like(s, SubSeq(p, 2, Len(p))) \/ (s # "" /\ Like(SubSeq(s, 2, Len(s)), p))
    ELSE /\ s # ""
         /\ (Char(p, 1) = "_" \/ LowerChar(Char(p, 1)) = LowerChar(Char(s, 1)))
         /\ Like(SubSeq(s, 2, Len(s)), SubSeq(p, 2, Len(p)))

\* column LIKE ? on a nullable text column: NULL matches nothing
ColumnLike(v, p) == v # "NULL" /\ Like(v, p)

\* the names locations carry, in sqlite's (byte) order
LocationNames == <<"Cedar Falls", "Pine Camp", "Pine Ridge Township">>

NameRank(name) == CHOOSE k \in 1..Len(LocationNames) : LocationNames[k] = name

\* the statements of get_forest_fire_overview
cases_query == [verb |-> "SELECT", tables |-> {"disease_case"}, shape |-> "case_stats"]

persons_query == [verb |-> "SELECT", tables |-> {"pr_person"}, shape |-> "person_stats"]

locations_query == [verb |-> "SELECT", tables |-> {"gis_location"}, shape |-> "location_stats"]

\* the statements of get_evacuees_and_affected_persons
evacuee_persons_query == [verb |-> "SELECT", tables |-> {"pr_person"}, shape |-> "persons_list"]

evacuee_cases_query ==
    [verb |-> "SELECT", tables |-> {"disease_case", "pr_person", "gis_location"},
     shape |-> "cases_list"]

\* rows a SELECT yields on store st
SelectRows(st, stmt) ==
    CASE stmt.shape = "case_stats" ->
            LET rows == st["disease_case"]
            IN  <<[total_affected |-> CountAll(rows),
                   severe_injuries |-> SumWhere(rows, "hospitalized", "T"),
                   evacuated_safe |-> SumWhere(rows, "illness_status", "Recovered"),
                   casualties |-> SumWhere(rows, "illness_status", "Deceased"),
                   missing_persons |-> SumWhere(rows, "illness_status", "Active")]>>
      [] stmt.shape = "person_stats" ->
            LET rows == st["pr_person"]
            IN  <<[total_persons |-> CountAll(rows),
                   registered_persons |-> CountNotNull(rows, "pe_label")]>>
      [] stmt.shape = "location_stats" ->
            LET rows == st["gis_location"]
            IN  <<[total_locations |-> CountAll(rows),
                   total_population |->
                       IF Len(rows) = 0 THEN None ELSE PyInt(SumField(rows, "population"))]>>
      [] stmt.shape = "persons_list" -> Limit(SortedDesc(st["pr_person"], "created_on"), 20)
      [] stmt.shape = "cases_list" -> SortedDesc(st["disease_case"], "diagnosis_date")
      [] stmt.shape = "zones_list" ->
            LET named == SelectSeq(st["gis_location"], LAMBDA r : r.name \notin {"NULL", ""})
                byName == SortedBy(named, [i \in 1..Len(named) |-> NameRank(named[i].name)])
            IN  Limit(SortedDesc(byName, "population"), 25)
      [] stmt.shape = "assets_list" -> Limit(SortedAsc(st["asset_asset"], "type"), 15)
      [] stmt.shape = "search_persons" ->
            Limit(SelectSeq(st["pr_person"],
                            LAMBDA r : \/ ColumnLike(r.first_name, stmt.params[1])
                                       \/ ColumnLike(r.last_name, stmt.params[2])
                                       \/ ColumnLike(r.pe_label, stmt.params[3])), 10)
      [] stmt.shape = "search_locations" ->
            Limit(SelectSeq(st["gis_location"], LAMBDA r : ColumnLike(r.name, stmt.params[1])), 10)
      [] stmt.shape = "search_cases" ->
            Limit(SelectSeq(st["disease_case"],
                            LAMBDA r : ColumnLike(r.case_number, stmt.params[1])), 10)
      [] OTHER -> st[CHOOSE t \in stmt.tables : TRUE]

\* sqlite's cursor.execute on an already parsed statement:
\* ok = FALSE stands for sqlite3.Error (syntax error, no such table)
SqlRun(st, stmt) ==
    CASE stmt.verb = "SELECT" /\ stmt.tables \subseteq DOMAIN st ->
            [ok |-> TRUE, rows |-> SelectRows(st, stmt), store |-> st, select |-> TRUE]
      [] stmt.verb = "DROP" /\ stmt.tables \subseteq DOMAIN st ->
            [ok |-> TRUE, rows |-> <<>>, select |-> FALSE,
             store |-> [t \in (DOMAIN st) \ stmt.tables |-> st[t]]]
      [] OTHER ->
            [ok |-> FALSE, rows |-> <<>>, store |-> st, select |-> FALSE]

(***************************************************************************)
(* Data access gateway: ForestFireEmergencyDatabase (the code of           *)
(* ForestFireDatabaseTool.connect / execute_query is the same).            *)
(* db = [connection, store, reachable, calls]; calls records, for each     *)
(* execute_query, how many connects and statement executions it attempted. *)
(***************************************************************************)
NewDb(conn, n, st, reach) ==
    [connection |-> conn, opened |-> n, store |-> st, reachable |-> reach, calls |-> <<>>]

\* connect(): True and a held connection, or False when sqlite3.connect raises
Connect(db) ==
    IF db.reachable
    THEN [ok |-> TRUE, db |-> [db EXCEPT !.connection = OpenConnection, !.opened = @ + 1]]
    ELSE [ok |-> FALSE, db |-> db]

\* the gateway's record of one execute_query call
CallRecord(stmt, connects, executes, ok) ==
    [stmt |-> stmt, connects |-> connects, executes |-> executes, ok |-> ok]

\* A faulty variant of Executed: a failing statement is run a second time.
\* C10 must tell it from Executed.
ExecutedWithRetry(db, stmt, connects, r) ==
    [rows |-> IF r.ok THEN r.rows ELSE <<>>, raised |-> FALSE,
     db |-> [db EXCEPT !.store = r.store,
                       !.calls = Append(@, CallRecord(stmt, connects,
                                                      IF r.ok THEN 1 ELSE 2, r.ok))]]

\* lines 79-86: the try block, r being what cursor.execute did
Executed(db, stmt, connects, r) ==
    [rows |-> IF r.ok THEN r.rows ELSE <<>>, raised |-> FALSE,
     db |-> [db EXCEPT !.store = r.store,
                       !.calls = Append(@, CallRecord(stmt, connects, 1, r.ok))]]

\* A faulty variant of ExecuteQuery: a connection that is already held
\* yields no rows.  C18 must tell it from ExecuteQuery.
ExecuteQueryStaleOnReuse(db, stmt) ==
    IF db.connection = None
    THEN IF Connect(db).ok
         THEN Executed(Connect(db).db, stmt, 1, SqlRun(db.store, stmt))
         ELSE [rows |-> <<>>, raised |-> FALSE,
               db |-> [db EXCEPT !.calls = Append(@, CallRecord(stmt, 1, 0, FALSE))]]
    ELSE [rows |-> <<>>, raised |-> FALSE,
          db |-> [db EXCEPT !.calls = Append(@, CallRecord(stmt, 0, 0, FALSE))]]

\* execute_query(query, params): rows as dicts, [] on any failure
ExecuteQuery(db, stmt) ==
    IF db.connection = None
    THEN IF Connect(db).ok
         THEN Executed(Connect(db).db, stmt, 1, SqlRun(db.store, stmt))
         ELSE [rows |-> <<>>, raised |-> FALSE,
               db |-> [db EXCEPT !.calls = Append(@, CallRecord(stmt, 1, 0, FALSE))]]
    ELSE Executed(db, stmt, 0, SqlRun(db.store, stmt))

(***************************************************************************)
(* Domain views.                                                           *)
(***************************************************************************)
EmptyDict == [k \in {} |-> None]

\* dict.get(key, default)
Get(d, k, default) == IF k \in DOMAIN d THEN d[k] ELSE default

\* "x or y" on a nullable number
OrElse(x, y) == IF x = None \/ x = PyInt(0) THEN y ELSE x

FirstRow(rows) == IF rows # <<>> THEN rows[1] ELSE EmptyDict

\* the dictionary get_forest_fire_overview returns (lines 131-164);
\* last_updated (the wall clock) is left out
OverviewView(stats, p_stats, l_stats) ==
    [incident_name |-> "Pine Ridge National Forest Wildfire",
     alert_level |-> "EXTREME",
     fire_status |-> "ACTIVE - MULTIPLE ZONES",
     casualties_and_impact |->
       [total_affected_persons |-> Get(stats, "total_affected", PyInt(0)),
        severe_injuries |-> Get(stats, "severe_injuries", PyInt(0)),
        evacuated_safely |-> Get(stats, "evacuated_safe", PyInt(0)),
        casualties |-> Get(stats, "casualties", PyInt(0)),
        missing_persons |-> Get(stats, "missing_persons", PyInt(0))],
     population_status |->
       [total_registered_persons |-> Get(p_stats, "total_persons", PyInt(0)),
        affected_locations |-> Get(l_stats, "total_locations", PyInt(0)),
        population_at_risk |->
            OrElse(Get(l_stats, "total_population", PyInt(0)), PyInt(12500)),
        evacuation_zones |-> PyInt(5),
        shelter_capacity |-> PyInt(1200)],
     fire_statistics |->
       [acres_burned |-> PyInt(15750),
        containment_percentage |-> PyInt(25),
        structures_threatened |-> PyInt(450),
        structures_destroyed |-> PyInt(85),
        firefighters_deployed |-> PyInt(380),
        aircraft_deployed |-> PyInt(12)]]

\* get_forest_fire_overview(): three gateway queries, then the dictionary
GetForestFireOverview(db) ==
    LET q1 == ExecuteQuery(db, cases_query)
        q2 == ExecuteQuery(q1.db, persons_query)
        q3 == ExecuteQuery(q2.db, locations_query)
    IN  [db |-> q3.db,
         view |-> OverviewView(FirstRow(q1.rows), FirstRow(q2.rows), FirstRow(q3.rows))]

\* the dictionary get_evacuees_and_affected_persons returns (lines 205-240)
EvacueesView(persons, cases) ==
    [evacuees |->
        [i \in 1..Len(Limit(persons, 10)) |->
            [name |-> <<persons[i].first_name, persons[i].last_name>>,
             evacuee_id |-> persons[i].id,
             status |-> "Safely evacuated"]],
     incident_impacts |->
        [i \in 1..Len(cases) |->
            [case_id |-> cases[i].case_number,
             injury_severity |-> IF cases[i].hospitalized = "T" THEN "Severe" ELSE "Minor",
             current_status |-> cases[i].illness_status]],
     statistics |->
        [total_evacuees |-> Len(Limit(persons, 10)),
         total_incidents |-> Len(cases),
         hospitalized |-> Cardinality({i \in 1..Len(cases) : cases[i].hospitalized = "T"}),
         evacuation_success_rate |-> "94%"]]

\* get_evacuees_and_affected_persons(): two gateway queries, then the dictionary
GetEvacueesAndAffectedPersons(db) ==
    LET q1 == ExecuteQuery(db, evacuee_persons_query)
        q2 == ExecuteQuery(q1.db, evacuee_cases_query)
    IN  [db |-> q2.db, view |-> EvacueesView(q1.rows, q2.rows)]

(***************************************************************************)
(* Texts the agent returns: a diagnostic label, the exception text that    *)
(* follows it, and the body.                                               *)
(***************************************************************************)
Text(label, detail, body) == [type |-> "str", label |-> label, detail |-> detail, body |-> body]

\* label + detail + "\n\n" + t
Prefixed(label, detail, t) == Text(label, detail, t.body)

IsStr(v) == v.type = "str"

Guidance == Text("", "", [kind |-> "guidance",
                          text |-> "Please ask about the forest fire emergency situation."])

OverviewWords == {"overview", "status", "situation"}

EvacuationWords == {"evacuee", "evacuation", "people", "shelter"}

\* A faulty variant of FallbackBranch: the evacuation words are tried first.
\* C15 must tell it from FallbackBranch.
FallbackBranchEvacuationFirst(user_input) ==
    LET user_lower == Lower(user_input)
    IN  IF ContainsAny(user_lower, EvacuationWords) THEN "evacuation"
        ELSE IF ContainsAny(user_lower, OverviewWords) THEN "overview"
        ELSE "help"

\* branch _fallback_response takes for user_input
FallbackBranch(user_input) ==
    LET user_lower == Lower(user_input)
    IN  IF ContainsAny(user_lower, OverviewWords) THEN "overview"
        ELSE IF ContainsAny(user_lower, EvacuationWords) THEN "evacuation"
        ELSE "help"

\* lines 545-570: the overview text built from the view o
OverviewText(o) ==
    [db |-> o.db,
     text |-> Text("", "",
        [kind |-> "overview",
         fire_status |-> o.view.fire_status,
         alert_level |-> o.view.alert_level,
         impact |-> o.view.casualties_and_impact,
         fire_stats |-> o.view.fire_statistics])]

\* lines 573-590: the evacuation text built from the view e
EvacuationText(e) ==
    [db |-> e.db,
     text |-> Text("", "",
        [kind |-> "evacuation",
         stats |-> e.view.statistics,
         recent |-> Limit(e.view.evacuees, 5)])]

\* lines 593-604: the help text, which names the current mode
HelpText(m, db) == [db |-> db, text |-> Text("", "", [kind |-> "help", current_mode |-> m])]

\* what _fallback_response does on branch b
FallbackOn(b, m, db) ==
    CASE b = "overview" -> OverviewText(GetForestFireOverview(db))
      [] b = "evacuation" -> EvacuationText(GetEvacueesAndAffectedPersons(db))
      [] OTHER -> HelpText(m, db)

\* _fallback_response(user_input): the Response Formatter
FallbackResponse(m, db, user_input) == FallbackOn(FallbackBranch(user_input), m, db)

(***************************************************************************)
(* What the world outside the process can answer to one backend call.      *)
(***************************************************************************)
GeminiText == "Evacuate Zone Alpha now."

\* outcomes of requests.post(...) followed by response.json(); the text of a
\* connection error names the URL that was requested, that of a timeout does not
HttpOutcomes ==
    { [kind |-> "raise", names_url |-> TRUE,
       exc |-> "HTTPSConnectionPool(host='generativelanguage.googleapis.com', port=443): Max retries exceeded with url: "],
      [kind |-> "raise", exc |-> "Read timed out. (read timeout=30)"],
      [kind |-> "reply", status_code |-> 500, json |-> [error |-> "internal"]],
      [kind |-> "reply", status_code |-> 200, json |-> [not_json |-> TRUE]],
      [kind |-> "reply", status_code |-> 200, json |-> [error |-> "quota"]],
      [kind |-> "reply", status_code |-> 200, json |-> [candidates |-> <<>>]],
      [kind |-> "reply", status_code |-> 200,
       json |-> [candidates |-> <<[finishReason |-> "SAFETY"]>>]],
      [kind |-> "reply", status_code |-> 200,
       json |-> [candidates |-> <<[content |-> [role |-> "model"]]>>]],
      [kind |-> "reply", status_code |-> 200,
       json |-> [candidates |-> <<[content |-> [parts |-> <<>>]]>>]],
      [kind |-> "reply", status_code |-> 200,
       json |-> [candidates |-> <<[content |-> [parts |-> <<[inlineData |-> "x"]>>]]>>]],
      [kind |-> "reply", status_code |-> 200,
       json |-> [candidates |-> <<[content |-> [parts |-> <<[text |-> GeminiText]>>]]>>]] }

\* outcomes of gemini_model.generate_content(...) followed by response.text
SdkOutcomes ==
    { [kind |-> "raise", exc |-> "ResourceExhausted"],
      [kind |-> "reply", text |-> None],
      [kind |-> "reply", text |-> Text("", "", [kind |-> "ai", text |-> GeminiText])] }

\* outcomes of agent.run(...): it raises, or returns an object with or without
\* a content attribute; content is Optional in the framework's RunResponse
AgnoOutcomes ==
    { [kind |-> "raise", exc |-> "ModelProviderError"],
      [kind |-> "reply", attrs |-> {"content"},
       content |-> Text("", "", [kind |-> "ai", text |-> GeminiText])],
      [kind |-> "reply", attrs |-> {"content"}, content |-> None],
      [kind |-> "reply", attrs |-> {}, content |-> None] }

NoBackend == [kind |-> "unused"]

\* the outcomes the backend of mode m can produce
BackendOutcomes(m) ==
    CASE m = "gemini_direct_api" -> HttpOutcomes
      [] m = "google_ai" -> SdkOutcomes
      [] m = "agno" -> AgnoOutcomes
      [] OTHER -> {NoBackend}

(***************************************************************************)
(* ForestFireAgent: the backend calls.  Each returns the text, the gateway *)
(* after the call, and the outside calls it made (events).                 *)
(***************************************************************************)
\* response.json() returns a dict (otherwise it raises)
IsDict(j) == "not_json" \notin DOMAIN j

\* the envelope test of _query_gemini_direct_api, lines 526-529
HasCandidateParts(result) ==
    /\ "candidates" \in DOMAIN result
    /\ Len(result.candidates) > 0
    /\ "content" \in DOMAIN result.candidates[1]
    /\ "parts" \in DOMAIN result.candidates[1].content
    /\ Len(result.candidates[1].content.parts) > 0

\* a backend call that ended in the fallback text fb, under a label
Degraded(label, detail, fb, events) ==
    [raised |-> FALSE, exc |-> "", value |-> Prefixed(label, detail, fb.text),
     db |-> fb.db, events |-> events \o <<"fallback">>]

\* a backend call that produced the text value
Answered(value, db, events) ==
    [raised |-> FALSE, exc |-> "", value |-> value, db |-> db, events |-> events]

ApiUnavailable == "**AI API temporarily unavailable. Using local emergency data:**"

DirectApiError == "**Direct API Error:** "

\* line 513: the endpoint, with the key as a query parameter
Url(key) == "/v1beta/models/gemini-pro:generateContent?key=" \o key

\* str(e) for the exception of outcome o of a request to url
ExceptionText(o, url) == IF "names_url" \in DOMAIN o THEN o.exc \o url ELSE o.exc

\* A faulty variant of DirectApiReply: a 200 reply without the candidate
\* parts is answered under the AI heading.  C23 must tell it from DirectApiReply.
DirectApiReplyBareEnvelope(o, fb, http, url) ==
    IF http.kind = "raise"
    THEN Degraded(DirectApiError, ExceptionText(http, url), fb, <<"http_post">>)
    ELSE IF http.status_code # 200 THEN Degraded(ApiUnavailable, "", fb, <<"http_post">>)
    ELSE IF ~IsDict(http.json) THEN Degraded(DirectApiError, "JSONDecodeError", fb, <<"http_post">>)
    ELSE IF ~HasCandidateParts(http.json)
    THEN Answered(Text("## AI RESPONSE (Gemini Active)", "", [kind |-> "ai", text |-> ""]),
                  o.db, <<"http_post">>)
    ELSE IF "text" \notin DOMAIN http.json.candidates[1].content.parts[1]
    THEN Degraded(DirectApiError, "KeyError: 'text'", fb, <<"http_post">>)
    ELSE Answered(Text("## AI RESPONSE (Gemini Active)", "",
                       [kind |-> "ai", text |-> http.json.candidates[1].content.parts[1].text]),
                  o.db, <<"http_post">>)

\* lines 512-537: the HTTP call and what is made of its outcome; o is the
\* overview fetched for the prompt, fb the fallback text computed on demand
DirectApiReply(o, fb, http, url) ==
    IF http.kind = "raise"
    THEN Degraded(DirectApiError, ExceptionText(http, url), fb, <<"http_post">>)
    ELSE IF http.status_code # 200 THEN Degraded(ApiUnavailable, "", fb, <<"http_post">>)
    ELSE IF ~IsDict(http.json) THEN Degraded(DirectApiError, "JSONDecodeError", fb, <<"http_post">>)
    ELSE IF ~HasCandidateParts(http.json) THEN Degraded(ApiUnavailable, "", fb, <<"http_post">>)
    ELSE IF "text" \notin DOMAIN http.json.candidates[1].content.parts[1]
    THEN Degraded(DirectApiError, "KeyError: 'text'", fb, <<"http_post">>)
    ELSE Answered(Text("## AI RESPONSE (Gemini Active)", "",
                       [kind |-> "ai", text |-> http.json.candidates[1].content.parts[1].text]),
                  o.db, <<"http_post">>)

\* the gateway after get_forest_fire_overview(), line 493 / 464
AfterOverview(db) == GetForestFireOverview(db).db

\* _query_gemini_direct_api(user_input)
QueryGeminiDirectApi(self, db, user_input, http) ==
    DirectApiReply(GetForestFireOverview(db),
                   FallbackResponse(self.mode, AfterOverview(db), user_input), http,
                   Url(self.api_key))

GeminiAiError == "Gemini AI Error: "

\* lines 483-487: generate_content and response.text
GoogleAiReply(o, fb, sdk) ==
    IF sdk.kind = "raise" THEN Degraded(GeminiAiError, sdk.exc, fb, <<"generate_content">>)
    ELSE IF sdk.text = None
    THEN Degraded(GeminiAiError, "ValueError: response.text", fb, <<"generate_content">>)
    ELSE Answered(sdk.text, o.db, <<"generate_content">>)

\* _query_google_ai(user_input)
QueryGoogleAi(self, db, user_input, sdk) ==
    GoogleAiReply(GetForestFireOverview(db),
                  FallbackResponse(self.mode, AfterOverview(db), user_input), sdk)

\* lines 447-448: agent.run(user_input), then content or str(response)
RunAgno(self, db, user_input, run) ==
    IF run.kind = "raise"
    THEN [raised |-> TRUE, exc |-> run.exc, value |-> None, db |-> db, events |-> <<"agent_run">>]
    ELSE [raised |-> FALSE, exc |-> "",
          value |-> IF "content" \in run.attrs
                    THEN run.content
                    ELSE Text("", "", [kind |-> "repr", text |-> "RunResponse"]),
          db |-> db, events |-> <<"agent_run">>]

\* line 450: the Response Formatter's text as the answer
FormatterOnly(fb) ==
    [raised |-> FALSE, exc |-> "", value |-> fb.text, db |-> fb.db, events |-> <<"fallback">>]

\* lines 442-450 of query(): route by mode
Dispatch(self, db, user_input, backend) ==
    IF self.mode = "gemini_direct_api"
    THEN QueryGeminiDirectApi(self, db, user_input, backend)
    ELSE IF self.mode = "google_ai" /\ self.gemini_model # None
    THEN QueryGoogleAi(self, db, user_input, backend)
    ELSE IF self.mode = "agno" /\ self.agent # None
    THEN RunAgno(self, db, user_input, backend)
    ELSE FormatterOnly(FallbackResponse(self.mode, db, user_input))

\* A faulty variant of Recovered: the except branch returns the error alone.
\* C3 must tell it from Recovered.
RecoveredBareError(self, d, fb) ==
    [value |-> Text("Error: ", d.exc, [kind |-> "error_only"]), db |-> d.db,
     events |-> d.events, self |-> self]

\* A faulty variant of Recovered: the except branch downgrades the stored mode.
\* C7 must tell it from Recovered.
RecoveredDowngrading(self, d, fb) ==
    [value |-> Prefixed("Error: ", d.exc, fb.text), db |-> fb.db,
     events |-> d.events \o <<"fallback">>, self |-> [self EXCEPT !.mode = "fallback"]]

\* lines 455-458 of query(): the except branch, fb being _fallback_response's result
Recovered(self, d, fb) ==
    [value |-> Prefixed("Error: ", d.exc, fb.text), db |-> fb.db,
     events |-> d.events \o <<"fallback">>, self |-> self]

OnDispatchError(self, db, user_input, d) ==
    Recovered(self, d, FallbackResponse(self.mode, db, user_input))

\* the conversation entry query() appends (the timestamp is left out)
PendingEntry(self, user_input) == [user |-> user_input, agent |-> None, mode |-> self.mode]

\* A faulty variant of SetLastAgent: the entry keeps its pending response.
\* C9 must tell it from SetLastAgent.
SetLastAgentSkipped(history, response) == history

\* conversation_history[-1]["agent"] = response
SetLastAgent(history, response) == [history EXCEPT ![Len(history)].agent = response]

\* lines 452-453 and 457-458: store the response in the last entry and return it
Finish(self, value, db, events, dispatchRaised) ==
    [returned |-> value, raised |-> FALSE,
     self |-> [self EXCEPT !.conversation_history = SetLastAgent(@, value)],
     db |-> db, events |-> events, dispatchRaised |-> dispatchRaised]

FinishRecovered(e) == Finish(e.self, e.value, e.db, e.events, TRUE)

\* lines 440-458: the try block around the dispatch result d
Routed(s1, user_input, d) ==
    IF ~d.raised
    THEN Finish(s1, d.value, d.db, d.events, FALSE)
    ELSE FinishRecovered(OnDispatchError(s1, d.db, user_input, d))

\* lines 433-438: append the pending entry
WithPending(self, user_input) ==
    [self EXCEPT !.conversation_history = Append(@, PendingEntry(self, user_input))]

\* A faulty variant of AgentQuery: the blank test comes after the log append.
\* C8 must tell it from AgentQuery.
AgentQueryLoggingBlank(self, db, user_input, backend) ==
    IF Strip(user_input) = ""
    THEN [returned |-> Guidance, raised |-> FALSE, self |-> WithPending(self, user_input),
          db |-> db, events |-> <<>>, dispatchRaised |-> FALSE]
    ELSE Routed(WithPending(self, user_input), user_input,
                Dispatch(WithPending(self, user_input), db, user_input, backend))

\* query(user_input): the whole method
AgentQuery(self, db, user_input, backend) ==
    IF Strip(user_input) = ""
    THEN [returned |-> Guidance, raised |-> FALSE, self |-> self, db |-> db,
          events |-> <<>>, dispatchRaised |-> FALSE]
    ELSE Routed(WithPending(self, user_input), user_input,
                Dispatch(WithPending(self, user_input), db, user_input, backend))

(***************************************************************************)
(* ForestFireAgent: construction and backend selection (_initialize_ai).   *)
(***************************************************************************)
HardcodedKey == "AIzaSy-hardcoded"

\* api_key or os.getenv("GEMINI_API_KEY") or hardcoded fallback ("" is falsy)
ResolveKey(arg, env) == IF arg # "" THEN arg ELSE IF env # "" THEN env ELSE HardcodedKey

KeyArgs == {"", "AIzaSy-caller"}

KeyEnvs == {""}

\* the library a backend needs could not be imported (its *_AVAILABLE flag is False)
Unavailable == [kind |-> "unavailable"]

\* outcomes of the probe request of _test_gemini_direct_api
ProbeHttpOutcomes ==
    { [kind |-> "raise", exc |-> "ConnectTimeout"],
      [kind |-> "reply", status_code |-> 500],
      [kind |-> "reply", status_code |-> 200] }

\* outcomes of a library initialisation (genai configure + GenerativeModel, or Gemini + Agent)
LibOutcomes == { [kind |-> "raise", exc |-> "InitError"], [kind |-> "ok"] }

\* _test_gemini_direct_api(): True on status 200, False otherwise and on any exception
TestGeminiDirectApi(http) ==
    IF http.kind = "raise"
    THEN [raised |-> FALSE, value |-> FALSE]
    ELSE [raised |-> FALSE, value |-> http.status_code = 200]

\* _initialize_google_ai(): sets the handle and the mode, or logs and re-raises
InitializeGoogleAi(self, lib) ==
    IF lib.kind = "raise"
    THEN [raised |-> TRUE, self |-> self]
    ELSE [raised |-> FALSE,
          self |-> [self EXCEPT !.gemini_model = [type |-> "GenerativeModel"],
                                !.mode = "google_ai"]]

\* A faulty variant of InitializeAgent: the mode is set though Agent(...)
\* left no handle.  C28 must tell it from InitializeAgent.
InitializeAgentModeOnly(self, lib) ==
    IF lib.kind = "raise"
    THEN [raised |-> TRUE, self |-> self]
    ELSE [raised |-> FALSE, self |-> [self EXCEPT !.mode = "agno"]]

\* _initialize_agent(): sets the handle and the mode, or logs and re-raises
InitializeAgent(self, lib) ==
    IF lib.kind = "raise"
    THEN [raised |-> TRUE, self |-> self]
    ELSE [raised |-> FALSE,
          self |-> [self EXCEPT !.agent = [type |-> "Agent"], !.mode = "agno"]]

\* A faulty variant of DirectApiStep: the mode is committed whatever the test said.
\* C4 must tell it from DirectApiStep.
DirectApiStepIgnoringTest(self, test) ==
    [next |-> "return", self |-> [self EXCEPT !.mode = "gemini_direct_api"]]

\* lines 313-322: the direct-API step of _initialize_ai
\* next = "return" (committed), "continue" (try the next backend) or "raise"
DirectApiStep(self, test) ==
    IF test.raised THEN [next |-> "continue", self |-> self]
    ELSE IF test.value THEN [next |-> "return", self |-> [self EXCEPT !.mode = "gemini_direct_api"]]
    ELSE [next |-> "continue", self |-> self]

\* A faulty variant of LibraryStep: the initialisation's exception is let through.
\* C5 must tell it from LibraryStep.
LibraryStepReraising(init) ==
    IF init.raised THEN [next |-> "raise", self |-> init.self]
    ELSE [next |-> "return", self |-> init.self]

\* lines 325-330 and 333-338: a library step of _initialize_ai (try / except Exception)
LibraryStep(init) ==
    IF init.raised THEN [next |-> "continue", self |-> init.self]
    ELSE [next |-> "return", self |-> init.self]

\* A faulty variant of FallbackStep: the mode is left outside the four modes.
\* C6 must tell it from FallbackStep.
FallbackStepUnselected(self) == [self EXCEPT !.mode = "unselected"]

\* lines 340-341
FallbackStep(self) == [self EXCEPT !.mode = "fallback"]

(***************************************************************************)
(* State of the agent as one record, and its projection on the variables.  *)
(***************************************************************************)
Self == [api_key |-> api_key, mode |-> mode, gemini_model |-> gemini_model, agent |-> agent,
         conversation_history |-> conversation_history]

SetSelf(s) ==
    /\ api_key' = s.api_key
    /\ mode' = s.mode
    /\ gemini_model' = s.gemini_model
    /\ agent' = s.agent
    /\ conversation_history' = s.conversation_history

Db == NewDb(connection, opened, store, dbReachable)

SetDb(d) ==
    /\ connection' = d.connection
    /\ opened' = d.opened
    /\ store' = d.store

NoCall == [op |-> "none"]

(***************************************************************************)
(* The agent as a state machine.                                           *)
(***************************************************************************)
UserInputs == {"", "  \t", "Fire STATUS?", "shelter", "hello"}

\* whether the backend itself answered the probe successfully
ProbeSucceeded(p) ==
    \/ p.outcome.kind = "ok"
    \/ p.outcome.kind = "reply" /\ p.outcome.status_code = 200

AfterStep(next, following) ==
    CASE next = "return" -> "ready"
      [] next = "continue" -> following
      [] OTHER -> "raised"

\* ForestFireAgent.__init__ up to the call of _initialize_ai (lines 297-305)
Init ==
    /\ pc = "probe_direct"
    /\ api_key \in {ResolveKey(a, e) : a \in KeyArgs, e \in KeyEnvs}
    /\ mode = "fallback"
    /\ gemini_model = None
    /\ agent = None
    /\ conversation_history = <<>>
    /\ connection = None
    /\ opened = 0
    /\ store \in Stores
    /\ dbReachable \in BOOLEAN
    /\ ~dbReachable => store = StoreSeeded
    /\ probeLog = <<>>
    /\ lastCall = NoCall

\* _initialize_ai, lines 312-322.  REQUESTS_AVAILABLE is read here and nowhere
\* else, so the import's outcome is drawn where it is read.
ProbeDirectApi ==
    /\ pc = "probe_direct"
    /\ \E found \in {Unavailable} \cup ProbeHttpOutcomes :
          /\ probeLog' = Append(probeLog, [backend |-> "direct", outcome |-> found])
          /\ IF found # Unavailable /\ api_key # ""
             THEN \E step \in {DirectApiStep(Self, TestGeminiDirectApi(found))} :
                     SetSelf(step.self) /\ pc' = AfterStep(step.next, "probe_sdk")
             ELSE /\ pc' = "probe_sdk"
                  /\ UNCHANGED <<api_key, mode, gemini_model, agent, conversation_history>>
    /\ UNCHANGED <<connection, opened, store, dbReachable, lastCall>>

\* _initialize_ai, lines 324-330 (GOOGLE_AI_AVAILABLE is read here only)
ProbeVendorSdk ==
    /\ pc = "probe_sdk"
    /\ \E found \in {Unavailable} \cup LibOutcomes :
          /\ probeLog' = Append(probeLog, [backend |-> "sdk", outcome |-> found])
          /\ IF found # Unavailable /\ api_key # ""
             THEN \E step \in {LibraryStep(InitializeGoogleAi(Self, found))} :
                     SetSelf(step.self) /\ pc' = AfterStep(step.next, "probe_agno")
             ELSE /\ pc' = "probe_agno"
                  /\ UNCHANGED <<api_key, mode, gemini_model, agent, conversation_history>>
    /\ UNCHANGED <<connection, opened, store, dbReachable, lastCall>>

\* _initialize_ai, lines 332-338 (AGNO_AVAILABLE is read here only)
ProbeAgentFramework ==
    /\ pc = "probe_agno"
    /\ \E found \in {Unavailable} \cup LibOutcomes :
          /\ probeLog' = Append(probeLog, [backend |-> "agno", outcome |-> found])
          /\ IF found # Unavailable /\ api_key # ""
             THEN \E step \in {LibraryStep(InitializeAgent(Self, found))} :
                     SetSelf(step.self) /\ pc' = AfterStep(step.next, "set_fallback")
             ELSE /\ pc' = "set_fallback"
                  /\ UNCHANGED <<api_key, mode, gemini_model, agent, conversation_history>>
    /\ UNCHANGED <<connection, opened, store, dbReachable, lastCall>>

\* _initialize_ai, lines 340-342
SelectFallback ==
    /\ pc = "set_fallback"
    /\ SetSelf(FallbackStep(Self))
    /\ pc' = "ready"
    /\ UNCHANGED <<connection, opened, store, dbReachable, probeLog, lastCall>>

\* one call of agent.query(user_input), with the backend answering `backend`
Query ==
    /\ pc = "ready"
    /\ \E user_input \in UserInputs :
       \E backend \in (IF Strip(user_input) = "" THEN {NoBackend} ELSE BackendOutcomes(mode)) :
          /\ Strip(user_input) # "" => Len(conversation_history) < MaxHistory
          /\ \E r \in {AgentQuery(Self, Db, user_input, backend)} :
                 /\ SetSelf(r.self)
                 /\ SetDb(r.db)
                 /\ lastCall' = [op |-> "query", input |-> user_input, backend |-> backend,
                                 returned |-> r.returned, raised |-> r.raised,
                                 dispatchRaised |-> r.dispatchRaised,
                                 events |-> r.events, dbCalls |-> r.db.calls,
                                 modeBefore |-> mode, historyBefore |-> conversation_history]
    /\ UNCHANGED <<pc, dbReachable, probeLog>>

\* the caller clears the log (agent.conversation_history.clear())
ClearConversation ==
    /\ pc = "ready"
    /\ conversation_history # <<>>
    /\ conversation_history' = <<>>
    /\ lastCall' = [op |-> "clear"]
    /\ UNCHANGED <<pc, api_key, mode, gemini_model, agent, connection, opened, store,
                   dbReachable, probeLog>>

Next ==
    \/ ProbeDirectApi
    \/ ProbeVendorSdk
    \/ ProbeAgentFramework
    \/ SelectFallback
    \/ Query
    \/ ClearConversation

Spec == Init /\ [][Next]_vars

\* __init__ runs _initialize_ai to its end: the construction steps are not
\* interrupted (lines 305-307)
Construction == ProbeDirectApi \/ ProbeVendorSdk \/ ProbeAgentFramework \/ SelectFallback

SpecLive == Init /\ [][Next]_vars /\ WF_vars(Construction)

(***************************************************************************)
(* The custom-query entry points of the database tools, called directly.   *)
(***************************************************************************)
IdentChars == (DOMAIN LowerOf) \cup (DOMAIN UpperOf) \cup {"0", "1", "_"}

\* the keyword sqlite reads at the start of a statement: its leading run of
\* identifier characters (sqlite's tokenizer does not need whitespace after it)
LeadingWord(t) ==
    LET stops == {i \in 1..Len(t) : Char(t, i) \notin IdentChars}
    IN  IF stops = {} THEN t ELSE SubSeq(t, 1, SetMin(stops) - 1)

\* sqlite's reading of a statement text: the verb, and the table it names last
SqlParse(q) ==
    LET t == Strip(q)
        kw == Upper(LeadingWord(t))
    IN  [verb |-> IF Contains(t, ";") THEN "MANY"
                  ELSE IF kw \in {"SELECT", "DROP"} THEN kw
                  ELSE "ERROR",
         tables |-> {LastToken(t)},
         shape |-> "rows"]

StoreWithX == [t \in {"x"} |-> <<[id |-> 1], [id |-> 2]>>]

ToolStores == {StoreNoSchema, StoreWithX}

CustomQueries ==
    { "SELECT * FROM x", "  select * from x", "Select * From y", "SELECT*FROM x",
      "SELECTED * FROM x", "SELECT 1; DROP TABLE x",
      "DROP TABLE x", " drop table x", "", "INSERT INTO x" }

ForestMarker == <<[error |-> "Only SELECT queries are allowed for safety"]>>

CovidMarker == <<[error |-> "Only SELECT queries are allowed"]>>

\* lines 29-43 of COVID19DatabaseTool.execute_query, r being what cursor.execute did
CovidExecuted(db, stmt, r) ==
    [rows |-> IF ~r.ok THEN <<[error |-> "sqlite3.Error"]>>
              ELSE IF ~r.select
              THEN \* cursor.description is None: iterating it raises TypeError
                   <<[error |-> "'NoneType' object is not iterable"]>>
              ELSE r.rows,
     raised |-> FALSE,
     db |-> [db EXCEPT !.store = r.store,
                       !.calls = Append(@, CallRecord(stmt, 1, 1, r.ok))]]

\* COVID19DatabaseTool.execute_query: a connection per call, errors as [{"error": ...}]
CovidExecuteQuery(db, stmt) ==
    IF ~db.reachable
    THEN [rows |-> <<[error |-> "unable to open database file"]>>, raised |-> FALSE,
          db |-> [db EXCEPT !.calls = Append(@, CallRecord(stmt, 1, 0, FALSE))]]
    ELSE CovidExecuted(db, stmt, SqlRun(db.store, stmt))

\* A faulty variant of PassesSelectCheck: every statement is let through.
\* C17 must tell it from PassesSelectCheck.
PassesAnyStatement(query) == TRUE

\* the guard of execute_custom_query / custom_query
PassesSelectCheck(query) == StartsWith(Strip(Upper(query)), "SELECT")

\* ForestFireDatabaseTool.execute_custom_query(query)
ExecuteCustomQuery(db, query) ==
    IF ~PassesSelectCheck(query)
    THEN [rows |-> ForestMarker, raised |-> FALSE, db |-> db]
    ELSE ExecuteQuery(db, SqlParse(query))

\* COVID19DatabaseTool.custom_query(query)
CustomQuery(db, query) ==
    IF ~PassesSelectCheck(query)
    THEN [rows |-> CovidMarker, raised |-> FALSE, db |-> db]
    ELSE CovidExecuteQuery(db, SqlParse(query))

ToolCall(name, query, r) ==
    [op |-> name, input |-> query, returned |-> r.rows, raised |-> r.raised,
     dbCalls |-> r.db.calls, storeBefore |-> store, connectionBefore |-> connection,
     openedBefore |-> opened]

InitTool ==
    /\ pc = "tool"
    /\ api_key = HardcodedKey
    /\ mode = "fallback"
    /\ gemini_model = None
    /\ agent = None
    /\ conversation_history = <<>>
    /\ connection = None
    /\ opened = 0
    /\ store \in ToolStores
    /\ dbReachable \in BOOLEAN
    /\ probeLog = <<>>
    /\ lastCall = NoCall

AgentUnchanged ==
    UNCHANGED <<pc, api_key, mode, gemini_model, agent, conversation_history, probeLog>>

\* db_tool.execute_custom_query(q)
ToolExecuteCustomQuery ==
    /\ pc = "tool"
    /\ \E q \in CustomQueries :
          \E r \in {ExecuteCustomQuery(Db, q)} :
              SetDb(r.db) /\ lastCall' = ToolCall("execute_custom_query", q, r)
    /\ UNCHANGED dbReachable
    /\ AgentUnchanged

\* tool.custom_query(q); the COVID tool holds no connection of its own
ToolCustomQuery ==
    /\ pc = "tool"
    /\ \E q \in CustomQueries :
          \E r \in {CustomQuery(Db, q)} :
              /\ store' = r.db.store
              /\ lastCall' = ToolCall("custom_query", q, r)
    /\ UNCHANGED <<connection, opened, dbReachable>>
    /\ AgentUnchanged

\* db.execute_query(q) on the forest-fire gateway
ToolExecuteQuery ==
    /\ pc = "tool"
    /\ \E q \in CustomQueries :
          \E r \in {ExecuteQuery(Db, SqlParse(q))} :
              SetDb(r.db) /\ lastCall' = ToolCall("execute_query", q, r)
    /\ UNCHANGED dbReachable
    /\ AgentUnchanged

\* tool.execute_query(q) on the COVID tool
ToolCovidExecuteQuery ==
    /\ pc = "tool"
    /\ \E q \in CustomQueries :
          \E r \in {CovidExecuteQuery(Db, SqlParse(q))} :
              /\ store' = r.db.store
              /\ lastCall' = ToolCall("covid_execute_query", q, r)
    /\ UNCHANGED <<connection, opened, dbReachable>>
    /\ AgentUnchanged

\* db_tool.disconnect()
ToolDisconnect ==
    /\ pc = "tool"
    /\ connection # None
    /\ connection' = None
    /\ opened' = opened - 1
    /\ lastCall' = [op |-> "disconnect"]
    /\ UNCHANGED <<store, dbReachable>>
    /\ AgentUnchanged

\* the database file becomes unreadable, or readable again
EnvReachability ==
    /\ pc = "tool"
    /\ dbReachable' = ~dbReachable
    /\ UNCHANGED <<connection, opened, store, lastCall>>
    /\ AgentUnchanged

\* the most connections followed at once
MaxOpen == 2

\* db_tool.connect(): the new connection is assigned over self.connection.
\* A connection that was held is not closed by connect(); whether the
\* interpreter has finalised it by the time connect() returns is the
\* interpreter's choice.
ToolConnect ==
    /\ pc = "tool"
    /\ opened < MaxOpen
    /\ \E r \in {Connect(Db)} :
          \E finalised \in (IF r.ok /\ connection # None THEN BOOLEAN ELSE {FALSE}) :
              /\ connection' = r.db.connection
              /\ opened' = IF finalised THEN r.db.opened - 1 ELSE r.db.opened
              /\ lastCall' = [op |-> "connect", returned |-> r.ok,
                              connectionBefore |-> connection, openedBefore |-> opened]
    /\ UNCHANGED <<store, dbReachable>>
    /\ AgentUnchanged

\* one gateway instance under connect, execute_query and disconnect
NextGateway ==
    \/ ToolConnect
    \/ ToolExecuteQuery
    \/ ToolDisconnect
    \/ EnvReachability

SpecGateway == InitTool /\ [][NextGateway]_vars

\* the statements the language model may hand to the execute_custom_query tool
AgentToolQueries ==
    { "SELECT * FROM pr_person", "DROP TABLE pr_person", "SELECTED * FROM pr_person",
      "select * from pr_person; DROP TABLE pr_person" }

\* while agent.run is in progress, the agent framework calls the
\* execute_custom_query tool registered with the agent (forest_fire_agent.py,
\* lines 79 and 170-176), which hands the text to db_tool.execute_custom_query
AgentToolQuery ==
    /\ pc = "ready"
    /\ mode = "agno"
    /\ agent # None
    /\ \E q \in AgentToolQueries :
          \E r \in {ExecuteCustomQuery(Db, q)} :
              SetDb(r.db) /\ lastCall' = ToolCall("tool_query", q, r)
    /\ UNCHANGED dbReachable
    /\ AgentUnchanged

\* the agent with its database tool
NextAgent == Next \/ AgentToolQuery

SpecAgent == Init /\ [][NextAgent]_vars

NextTool ==
    \/ ToolExecuteCustomQuery
    \/ ToolCustomQuery
    \/ ToolExecuteQuery
    \/ ToolCovidExecuteQuery
    \/ ToolDisconnect
    \/ EnvReachability

SpecTool == InitTool /\ [][NextTool]_vars

(***************************************************************************)
(* The view builders of ForestFireEmergencyDatabase                        *)
(* (final_forest_fire_agent.py), called directly on one gateway, with      *)
(* rows written to the store between the calls.                            *)
(***************************************************************************)
MaxRows == 2

zones_query == [verb |-> "SELECT", tables |-> {"gis_location"}, shape |-> "zones_list"]

assets_query == [verb |-> "SELECT", tables |-> {"asset_asset"}, shape |-> "assets_list"]

\* f"%{search_term}%"
Wildcarded(search_term) == "%" \o search_term \o "%"

search_persons_query(search_term) ==
    [verb |-> "SELECT", tables |-> {"pr_person"}, shape |-> "search_persons",
     params |-> <<Wildcarded(search_term), Wildcarded(search_term), Wildcarded(search_term)>>]

search_locations_query(search_term) ==
    [verb |-> "SELECT", tables |-> {"gis_location"}, shape |-> "search_locations",
     params |-> <<Wildcarded(search_term)>>]

search_cases_query(search_term) ==
    [verb |-> "SELECT", tables |-> {"disease_case"}, shape |-> "search_cases",
     params |-> <<Wildcarded(search_term)>>]

\* the three fixed fire zones of get_fire_zones_and_locations
fire_zones ==
    <<[zone_id |-> "FIRE-ZONE-ALPHA", area_acres |-> 8500, threat_level |-> "EXTREME"],
      [zone_id |-> "FIRE-ZONE-BRAVO", area_acres |-> 4200, threat_level |-> "HIGH"],
      [zone_id |-> "EVAC-ZONE-1", area_acres |-> 2500, threat_level |-> "HIGH"]>>

threat_levels == <<"EXTREME", "HIGH", "MODERATE", "LOW">>

community_statuses == <<"Evacuated", "Evacuation Warning", "Monitoring", "Safe">>

\* seq[i % len(seq)] for the 0-based index i
Cycled(seq, i) == seq[(i % Len(seq)) + 1]

\* one entry of affected_communities, i being enumerate's 0-based index
Community(location, i) ==
    [community_name |-> location.name,
     population |-> IF location.population = 0 THEN 2500 - i * 200 ELSE location.population,
     threat_level |-> Cycled(threat_levels, i),
     evacuation_status |-> Cycled(community_statuses, i),
     road_access |-> IF i % 3 # 0 THEN "Open" ELSE "Limited"]

\* the dictionary get_fire_zones_and_locations returns
ZonesView(locations) ==
    LET affected_communities ==
            [k \in 1..Len(Limit(locations, 8)) |-> Community(locations[k], k - 1)]
    IN  [fire_zones |-> fire_zones,
         affected_communities |-> affected_communities,
         zone_statistics |->
            [total_fire_zones |-> Len(fire_zones),
             total_affected_communities |-> Len(affected_communities),
             total_area_threatened |-> SumField(fire_zones, "area_acres"),
             total_population_at_risk |-> SumField(affected_communities, "population")]]

\* get_fire_zones_and_locations(): one gateway query, then the dictionary
GetFireZonesAndLocations(db) ==
    LET q == ExecuteQuery(db, zones_query)
    IN  [db |-> q.db, view |-> ZonesView(q.rows)]

equipment_types == <<"Fire Engine", "Water Tender", "Bulldozer", "Helicopter", "Ambulance">>

equipment_statuses == <<"Deployed", "Available", "Maintenance", "En Route">>

\* one entry of fire_equipment, n being len(fire_equipment) before the append
Equipment(asset, n) ==
    [equipment_id |-> asset.number,
     equipment_type |-> Cycled(equipment_types, n),
     status |-> Cycled(equipment_statuses, n),
     location |-> IF n % 2 = 0 THEN "Fire Station 12" ELSE "Active - Fire Zone",
     crew_size |-> IF Cycled(equipment_types, n) = "Fire Engine" THEN 4 ELSE 2]

personnel_stats ==
    [total_firefighters |-> 342, total_support_staff |-> 89, total_volunteers |-> 156,
     incident_commanders |-> 8, agencies_involved |-> 12, mutual_aid_resources |-> 45]

resource_requests ==
    <<[resource_type |-> "Type 1 Fire Engines", priority |-> "CRITICAL",
       status |-> "Partially Fulfilled"],
      [resource_type |-> "Air Tankers", priority |-> "HIGH", status |-> "Partially Fulfilled"],
      [resource_type |-> "Evacuation Buses", priority |-> "HIGH", status |-> "Fulfilled"]>>

\* the dictionary get_emergency_resources returns
ResourcesView(assets) ==
    LET fire_equipment == [k \in 1..Len(assets) |-> Equipment(assets[k], k - 1)]
    IN  [fire_equipment |-> fire_equipment,
         personnel_statistics |-> personnel_stats,
         resource_requests |-> resource_requests,
         resource_summary |->
            [total_equipment_deployed |->
                Cardinality({k \in 1..Len(fire_equipment) : fire_equipment[k].status = "Deployed"}),
             total_personnel |->
                personnel_stats.total_firefighters + personnel_stats.total_support_staff,
             critical_requests_pending |->
                Cardinality({k \in 1..Len(resource_requests) :
                                /\ resource_requests[k].status # "Fulfilled"
                                /\ resource_requests[k].priority = "CRITICAL"})]]

\* get_emergency_resources(): one gateway query, then the dictionary
GetEmergencyResources(db) ==
    LET q == ExecuteQuery(db, assets_query)
    IN  [db |-> q.db, view |-> ResourcesView(q.rows)]

\* the dictionary search_fire_data returns
SearchView(persons_found, locations_found, cases_found, search_term) ==
    [persons_found |-> persons_found,
     locations_found |-> locations_found,
     cases_found |-> cases_found,
     summary |-> [total_results |-> Len(persons_found) + Len(locations_found) + Len(cases_found),
                  search_term |-> search_term]]

\* A faulty variant of SearchFireData: locations and cases are searched only
\* when a person matched.  C13 must tell it from SearchFireData.
SearchFireDataPersonsFirst(db, search_term) ==
    LET q1 == ExecuteQuery(db, search_persons_query(search_term))
        q2 == ExecuteQuery(q1.db, search_locations_query(search_term))
        q3 == ExecuteQuery(q2.db, search_cases_query(search_term))
    IN  IF q1.rows = <<>>
        THEN [db |-> q1.db, view |-> SearchView(<<>>, <<>>, <<>>, search_term)]
        ELSE [db |-> q3.db, view |-> SearchView(q1.rows, q2.rows, q3.rows, search_term)]

\* search_fire_data(search_term): three gateway queries, then the dictionary
SearchFireData(db, search_term) ==
    LET q1 == ExecuteQuery(db, search_persons_query(search_term))
        q2 == ExecuteQuery(q1.db, search_locations_query(search_term))
        q3 == ExecuteQuery(q2.db, search_cases_query(search_term))
    IN  [db |-> q3.db, view |-> SearchView(q1.rows, q2.rows, q3.rows, search_term)]

\* a store whose tables hold more rows than any LIMIT of the builders
StoreLarge ==
    [t \in TableNames |->
        CASE t = "disease_case" ->
                [i \in 1..16 |->
                    [id |-> i, case_number |-> "PINE-C", hospitalized |-> IF i % 2 = 0 THEN "T" ELSE "F",
                     illness_status |-> Cycled(<<"Recovered", "Deceased", "Active">>, i),
                     diagnosis_date |-> i]]
          [] t = "pr_person" ->
                [i \in 1..16 |->
                    [id |-> i, first_name |-> "Pat", last_name |-> "Pine", pe_label |-> "NULL",
                     created_on |-> i]]
          [] t = "gis_location" ->
                [i \in 1..16 |->
                    [id |-> i, name |-> "Pine Camp", population |-> IF i % 2 = 0 THEN 0 ELSE 50 * i]]
          [] OTHER ->
                [i \in 1..16 |-> [id |-> i, number |-> "E-1", type |-> 16 - i]]]

ViewStores == {StoreNoSchema, StoreEmpty, StoreSeeded, StoreLarge}

SearchTerms == {"Pine", "ridge", "zzz", ""}

\* rows another process can add to the store
NewRows(st) ==
    {[table |-> "disease_case",
      row |-> [id |-> Len(st["disease_case"]) + 1, case_number |-> "FIRE-N",
               illness_status |-> k[1], hospitalized |-> k[2],
               diagnosis_date |-> Len(st["disease_case"]) + 1]] :
        k \in {<<"Recovered", "F">>, <<"Deceased", "T">>, <<"Active", "T">>}}
    \cup
    {[table |-> "pr_person",
      row |-> [id |-> Len(st["pr_person"]) + 1, first_name |-> k[1], last_name |-> k[2],
               pe_label |-> k[3], created_on |-> Len(st["pr_person"]) + 1]] :
        k \in {<<"Cy", "Pine", "P3">>, <<"Di", "Oak", "NULL">>}}
    \cup
    {[table |-> "gis_location",
      row |-> [id |-> Len(st["gis_location"]) + 1, name |-> k[1], population |-> k[2]]] :
        k \in {<<"Pine Camp", 0>>, <<"Cedar Falls", 400>>}}

RowCount(st) == Len(st["disease_case"]) + Len(st["pr_person"]) + Len(st["gis_location"])

(***************************************************************************)
(* The Response Formatter of final_forest_fire_agent.py.                   *)
(***************************************************************************)
ZoneWords == {"fire", "zone", "location", "community"}

ResourceWords == {"resource", "equipment", "personnel", "staff"}

\* A faulty variant of FullFallbackBranch: the resource words are tried before
\* the zone words.  C14 must tell it from FullFallbackBranch.
FullFallbackBranchResourceFirst(user_input) ==
    LET user_lower == Lower(user_input)
    IN  IF ContainsAny(user_lower, OverviewWords) THEN "overview"
        ELSE IF ContainsAny(user_lower, EvacuationWords) THEN "evacuation"
        ELSE IF ContainsAny(user_lower, ResourceWords) THEN "resources"
        ELSE IF ContainsAny(user_lower, ZoneWords) THEN "zones"
        ELSE "search"

\* branch _fallback_response of final_forest_fire_agent.py takes for user_input
FullFallbackBranch(user_input) ==
    LET user_lower == Lower(user_input)
    IN  IF ContainsAny(user_lower, OverviewWords) THEN "overview"
        ELSE IF ContainsAny(user_lower, EvacuationWords) THEN "evacuation"
        ELSE IF ContainsAny(user_lower, ZoneWords) THEN "zones"
        ELSE IF ContainsAny(user_lower, ResourceWords) THEN "resources"
        ELSE "search"

\* lines 630-644: the zones text built from the view z
ZonesText(z) ==
    [db |-> z.db,
     text |-> Text("", "",
        [kind |-> "zones",
         fire_zones |-> z.view.fire_zones,
         communities |-> Limit(z.view.affected_communities, 5)])]

\* lines 646-669: the resources text built from the view r
ResourcesText(r) ==
    [db |-> r.db,
     text |-> Text("", "",
        [kind |-> "resources",
         personnel |-> r.view.personnel_statistics,
         equipment |-> Limit(r.view.fire_equipment, 5),
         requests |-> r.view.resource_requests])]

\* lines 671-701: the search text when something was found, the help text otherwise
SearchText(found, user_input) ==
    [db |-> found.db,
     text |-> IF found.view.summary.total_results > 0
              THEN Text("", "",
                      [kind |-> "search", user_input |-> user_input,
                       total |-> found.view.summary.total_results,
                       persons |-> Len(found.view.persons_found),
                       locations |-> Len(found.view.locations_found),
                       cases |-> Len(found.view.cases_found)])
              ELSE Text("", "", [kind |-> "help"])]

\* what _fallback_response of final_forest_fire_agent.py does on branch b
FullFallbackOn(b, db, user_input) ==
    CASE b = "overview" -> OverviewText(GetForestFireOverview(db))
      [] b = "evacuation" -> EvacuationText(GetEvacueesAndAffectedPersons(db))
      [] b = "zones" -> ZonesText(GetFireZonesAndLocations(db))
      [] b = "resources" -> ResourcesText(GetEmergencyResources(db))
      [] OTHER -> SearchText(SearchFireData(db, user_input), user_input)

\* _fallback_response(user_input) of final_forest_fire_agent.py
FullFallbackResponse(db, user_input) ==
    FullFallbackOn(FullFallbackBranch(user_input), db, user_input)

FormatterInputs ==
    { "What's the current fire situation?", "Shelter STATUS and staff",
      "evacuation equipment", "fire personnel", "Equipment list", "Pine", "hello",
      "Show me evacuation status" }

FormatterCall(name, user_input, r) ==
    [op |-> name, input |-> user_input, returned |-> r.text, raised |-> FALSE,
     dbCalls |-> r.db.calls, storeBefore |-> store, connectionBefore |-> connection,
     selfBefore |-> Self]

ViewOps == {"overview", "evacuees", "zones", "resources", "search"}

\* what is kept of the call before this one, when it was a view call
Previous ==
    IF lastCall.op \in ViewOps
    THEN [op |-> lastCall.op, input |-> lastCall.input, returned |-> lastCall.returned]
    ELSE NoCall

ViewCall(name, input, r) ==
    [op |-> name, input |-> input, returned |-> r.view, raised |-> FALSE,
     dbCalls |-> r.db.calls, storeBefore |-> store, connectionBefore |-> connection,
     prev |-> Previous]

InitView ==
    /\ pc = "view"
    /\ api_key = HardcodedKey
    /\ mode = "fallback"
    /\ gemini_model = None
    /\ agent = None
    /\ conversation_history = <<>>
    /\ connection = None
    /\ opened = 0
    /\ store \in ViewStores
    /\ dbReachable \in BOOLEAN
    /\ probeLog = <<>>
    /\ lastCall = NoCall

\* db.get_forest_fire_overview()
ViewOverview ==
    /\ pc = "view"
    /\ \E r \in {GetForestFireOverview(Db)} :
          SetDb(r.db) /\ lastCall' = ViewCall("overview", "", r)
    /\ UNCHANGED dbReachable
    /\ AgentUnchanged

\* db.get_evacuees_and_affected_persons()
ViewEvacuees ==
    /\ pc = "view"
    /\ \E r \in {GetEvacueesAndAffectedPersons(Db)} :
          SetDb(r.db) /\ lastCall' = ViewCall("evacuees", "", r)
    /\ UNCHANGED dbReachable
    /\ AgentUnchanged

\* db.get_fire_zones_and_locations()
ViewZones ==
    /\ pc = "view"
    /\ \E r \in {GetFireZonesAndLocations(Db)} :
          SetDb(r.db) /\ lastCall' = ViewCall("zones", "", r)
    /\ UNCHANGED dbReachable
    /\ AgentUnchanged

\* db.get_emergency_resources()
ViewResources ==
    /\ pc = "view"
    /\ \E r \in {GetEmergencyResources(Db)} :
          SetDb(r.db) /\ lastCall' = ViewCall("resources", "", r)
    /\ UNCHANGED dbReachable
    /\ AgentUnchanged

\* db.search_fire_data(term)
ViewSearch ==
    /\ pc = "view"
    /\ \E term \in SearchTerms :
          \E r \in {SearchFireData(Db, term)} :
              SetDb(r.db) /\ lastCall' = ViewCall("search", term, r)
    /\ UNCHANGED dbReachable
    /\ AgentUnchanged

\* A faulty variant of FormatFull: the formatter logs the text it built.
\* C22 must tell it from FormatFull.
FormatFullLogging ==
    /\ pc = "view"
    /\ \E user_input \in FormatterInputs :
          \E r \in {FullFallbackResponse(Db, user_input)} :
              /\ SetDb(r.db)
              /\ lastCall' = FormatterCall("fallback_response", user_input, r)
              /\ conversation_history' = <<[user |-> user_input, agent |-> r.text]>>
    /\ UNCHANGED <<pc, api_key, mode, gemini_model, agent, probeLog, dbReachable>>

\* agent._fallback_response(user_input), final_forest_fire_agent.py
FormatFull ==
    /\ pc = "view"
    /\ \E user_input \in FormatterInputs :
          \E r \in {FullFallbackResponse(Db, user_input)} :
              SetDb(r.db) /\ lastCall' = FormatterCall("fallback_response", user_input, r)
    /\ UNCHANGED dbReachable
    /\ AgentUnchanged

\* agent._fallback_response(user_input), final_forest_fire_agent_clean.py
FormatClean ==
    /\ pc = "view"
    /\ \E user_input \in FormatterInputs :
          \E r \in {FallbackResponse(mode, Db, user_input)} :
              SetDb(r.db) /\ lastCall' = FormatterCall("fallback_response_clean", user_input, r)
    /\ UNCHANGED dbReachable
    /\ AgentUnchanged

\* another process inserts a row into storage.db
EnvInsertRow ==
    /\ pc = "view"
    /\ DOMAIN store = TableNames
    /\ RowCount(store) < MaxRows
    /\ \E w \in NewRows(store) :
          store' = [store EXCEPT ![w.table] = Append(@, w.row)]
    /\ lastCall' = [op |-> "write"]
    /\ UNCHANGED <<connection, opened, dbReachable>>
    /\ AgentUnchanged

\* the caller asks the formatter of one of the two agents twice in a row for
\* the same input
FormatTwice ==
    /\ pc = "view"
    /\ \E user_input \in FormatterInputs, variant \in {"final", "clean"} :
          \E r1 \in {IF variant = "final" THEN FullFallbackResponse(Db, user_input)
                                          ELSE FallbackResponse(mode, Db, user_input)} :
          \E r2 \in {IF variant = "final" THEN FullFallbackResponse(r1.db, user_input)
                                          ELSE FallbackResponse(mode, r1.db, user_input)} :
              /\ SetDb(r2.db)
              /\ lastCall' = [op |-> "fallback_response_twice", input |-> user_input,
                              variant |-> variant, first |-> r1.text, second |-> r2.text,
                              storeBefore |-> store, connectionBefore |-> connection,
                              selfBefore |-> Self]
    /\ UNCHANGED dbReachable
    /\ AgentUnchanged

NextView ==
    \/ ViewOverview
    \/ ViewEvacuees
    \/ ViewZones
    \/ ViewResources
    \/ ViewSearch
    \/ FormatFull
    \/ FormatClean
    \/ FormatTwice
    \/ EnvInsertRow

SpecView == InitView /\ [][NextView]_vars

(***************************************************************************)
(* Rates computed by the view builders of the database tools.  A rate is    *)
(* kept in hundredths of a percent; the literal 0 of an else branch is the  *)
(* int 0.                                                                    *)
(***************************************************************************)
Float(hundredths) == [type |-> "float", hundredths |-> hundredths]

\* a / b rounded to the nearest integer, ties to even (a >= 0, b > 0)
HalfEvenDiv(a, b) ==
    LET q == a \div b
        r == a % b
    IN  IF 2 * r < b THEN q
        ELSE IF 2 * r > b THEN q + 1
        ELSE IF q % 2 = 0 THEN q ELSE q + 1

\* round(n / d * 100, 2)
Round2(n, d) == Float(HalfEvenDiv(n * 10000, d))

\* round(n / d * 100, 1)
Round1(n, d) == Float(10 * HalfEvenDiv(n * 1000, d))

\* sum(s.get(f, 0) or 0 for s in rows)
RECURSIVE SumOrZero(_, _)
SumOrZero(rows, f) ==
    IF rows = <<>> THEN 0
    ELSE OrElse(Get(rows[1], f, PyInt(0)), PyInt(0)).v + SumOrZero(Tail(rows), f)

\* get_evacuation_status: the shelter statistics computed from the rows of
\* the shelter query ([] when the query failed)
GetEvacuationStatus(shelters) ==
    LET total_capacity == SumOrZero(shelters, "capacity")
        total_occupied == SumOrZero(shelters, "population_current")
    IN  [shelter_statistics |->
            [total_capacity |-> PyInt(total_capacity),
             total_occupied |-> PyInt(total_occupied),
             available_space |-> PyInt(total_capacity - total_occupied),
             occupancy_rate |-> IF total_capacity > 0
                                THEN Round1(total_occupied, total_capacity)
                                ELSE PyInt(0)]]

\* get_covid_overview, lines 86-91: test_data is the row of
\* SELECT SUM(tests_total), SUM(tests_positive); dividing None raises, and
\* the except clause of the method returns the error dictionary
CovidTesting(test_data) ==
    IF test_data[1] # None /\ test_data[1] # PyInt(0)
    THEN IF test_data[2] = None
         THEN [error |-> "unsupported operand type(s) for /: 'NoneType' and 'int'"]
         ELSE [total_tests |-> test_data[1],
               positive_tests |-> test_data[2],
               positivity_rate |-> Round2(test_data[2].v, test_data[1].v)]
    ELSE EmptyDict

\* get_hospitalization_trends: one entry of trends, from one row of the
\* monthly GROUP BY query
TrendEntry(row) ==
    [month |-> row.month,
     total_cases |-> PyInt(row.total),
     hospitalized |-> PyInt(row.hosp),
     icu |-> PyInt(row.icu),
     hospitalization_rate |-> IF row.total > 0 THEN Round2(row.hosp, row.total) ELSE PyInt(0),
     icu_rate |-> IF row.total > 0 THEN Round2(row.icu, row.total) ELSE PyInt(0)]

\* len([c for c in cases if c.get(f) == v])
RECURSIVE CountEqual(_, _, _)
CountEqual(rows, f, v) ==
    IF rows = <<>> THEN 0
    ELSE (IF Get(rows[1], f, None) = v THEN 1 ELSE 0) + CountEqual(Tail(rows), f, v)

\* get_incident_impact_data: the statistics computed from the case rows
IncidentStatistics(cases) ==
    LET total_cases == Len(cases)
        hospitalized == CountEqual(cases, "hospitalized", "T")
    IN  [statistics |->
            [total_cases |-> PyInt(total_cases),
             hospitalized |-> PyInt(hospitalized),
             recovered |-> PyInt(CountEqual(cases, "illness_status", "Recovered")),
             deceased |-> PyInt(CountEqual(cases, "illness_status", "Deceased")),
             hospitalization_rate |-> IF total_cases > 0
                                      THEN Round1(hospitalized, total_cases)
                                      ELSE PyInt(0)]]

\* sequences of at most MaxRows elements of S
SeqsUpTo(S) == UNION { [1..n -> S] : n \in 0..MaxRows }

\* rows the shelter query can return: status = 'Open' OR population_current > 0
ShelterRows ==
    { s \in [capacity : {None, PyInt(0), PyInt(50)},
             population_current : {None, PyInt(0), PyInt(20)},
             status : {"Open", "Closed"}] :
        s.status = "Open" \/ s.population_current = PyInt(20) }

\* rows of SELECT SUM(tests_total), SUM(tests_positive): NULLs on no rows
TestData ==
    { <<None, None>>, <<PyInt(0), PyInt(0)>>, <<PyInt(0), None>>,
      <<PyInt(40), PyInt(3)>>, <<PyInt(40), None>> }

\* rows of the monthly GROUP BY query: a group holds at least one case
TrendRows ==
    { r \in [month : {"2024-07"}, total : 1..3, hosp : 0..3, icu : 0..3] :
        r.hosp <= r.total /\ r.icu <= r.total }

CaseRows ==
    [hospitalized : {"T", "F"}, illness_status : {"Recovered", "Deceased"}]

RateCall(name, input, returned) ==
    [op |-> name, input |-> input, returned |-> returned]

InitRates ==
    /\ pc = "rates"
    /\ api_key = HardcodedKey
    /\ mode = "fallback"
    /\ gemini_model = None
    /\ agent = None
    /\ conversation_history = <<>>
    /\ connection = None
    /\ opened = 0
    /\ store = StoreEmpty
    /\ dbReachable = TRUE
    /\ probeLog = <<>>
    /\ lastCall = NoCall

\* ForestFireDatabaseTool.get_evacuation_status()
RateEvacuationStatus ==
    /\ pc = "rates"
    /\ \E shelters \in SeqsUpTo(ShelterRows) :
          lastCall' = RateCall("get_evacuation_status", shelters, GetEvacuationStatus(shelters))
    /\ UNCHANGED <<connection, opened, store, dbReachable>>
    /\ AgentUnchanged

\* CovidDatabaseTool.get_covid_overview()
RateCovidOverview ==
    /\ pc = "rates"
    /\ \E test_data \in TestData :
          lastCall' = RateCall("get_covid_overview", test_data, CovidTesting(test_data))
    /\ UNCHANGED <<connection, opened, store, dbReachable>>
    /\ AgentUnchanged

\* CovidDatabaseTool.get_hospitalization_trends()
RateHospitalizationTrends ==
    /\ pc = "rates"
    /\ \E row \in TrendRows :
          lastCall' = RateCall("get_hospitalization_trends", row, TrendEntry(row))
    /\ UNCHANGED <<connection, opened, store, dbReachable>>
    /\ AgentUnchanged

\* RealisticForestFireTool.get_incident_impact_data()
RateIncidentImpact ==
    /\ pc = "rates"
    /\ \E cases \in SeqsUpTo(CaseRows) :
          lastCall' = RateCall("get_incident_impact_data", cases, IncidentStatistics(cases))
    /\ UNCHANGED <<connection, opened, store, dbReachable>>
    /\ AgentUnchanged

PyStr(s) == [type |-> "str", v |-> s]

EvacueeWords == {"evacuee", "shelter", "displaced", "from:"}

StaffWords == {"fire captain", "emergency", "role:", "responder"}

\* the list a person row is appended to (lines 148-155)
PersonCategory(person) ==
    LET comments == Lower(Get(person, "comments", PyStr("")).v)
    IN  IF ContainsAny(comments, EvacueeWords) THEN "evacuees"
        ELSE IF ContainsAny(comments, StaffWords) THEN "response_staff"
        ELSE "other_persons"

PersonsIn(all_persons, category) ==
    SelectSeq(all_persons, LAMBDA person : PersonCategory(person) = category)

\* get_affected_persons on the rows of the person query: .lower() on the None
\* of a NULL comments column raises, and the method has no try block
GetAffectedPersons(all_persons) ==
    IF \E i \in 1..Len(all_persons) : Get(all_persons[i], "comments", PyStr("")) = None
    THEN [raised |-> TRUE, exc |-> "AttributeError: 'NoneType' object has no attribute 'lower'"]
    ELSE [raised |-> FALSE,
          evacuees |-> PersonsIn(all_persons, "evacuees"),
          response_staff |-> PersonsIn(all_persons, "response_staff"),
          other_persons |-> PersonsIn(all_persons, "other_persons"),
          total_persons |-> Len(all_persons),
          evacuee_count |-> Len(PersonsIn(all_persons, "evacuees")),
          staff_count |-> Len(PersonsIn(all_persons, "response_staff"))]

\* rows of pr_person: comments is a text or NULL
PersonRows ==
    [id : {1, 2},
     comments : {None, PyStr("Evacuee - Shelter A"), PyStr("Role: Fire Captain"),
                 PyStr("Emergency shelter volunteer"), PyStr("")}]

\* RealisticForestFireDatabaseTool.get_affected_persons()
BuildAffectedPersons ==
    /\ pc = "rates"
    /\ \E all_persons \in SeqsUpTo(PersonRows) :
          lastCall' = RateCall("get_affected_persons", all_persons,
                               GetAffectedPersons(all_persons))
    /\ UNCHANGED <<connection, opened, store, dbReachable>>
    /\ AgentUnchanged

NextRates ==
    \/ RateEvacuationStatus
    \/ RateCovidOverview
    \/ RateHospitalizationTrends
    \/ RateIncidentImpact
    \/ BuildAffectedPersons

SpecRates == InitRates /\ [][NextRates]_vars

(***************************************************************************)
(* The command-line programs: module import, construction of the agent and *)
(* the interactive loop of main(), for final_forest_fire_agent.py ("final") *)
(* and forest_fire_agent.py ("forest").  pc is "<program>:<position>";      *)
(* probeLog holds what the module import bound.                             *)
(***************************************************************************)
\* the longest conversation log followed in the interactive loop
MaxLog == 2

Programs == {"final", "forest"}

\* the try block at the top of the module: in forest_fire_agent.py the import
\* of ForestFireDatabaseTool follows the imports of agno inside the same try
ModuleImport(prog, agno_importable) ==
    [probe |-> "import",
     AGNO_AVAILABLE |-> agno_importable,
     names |-> (IF agno_importable THEN {"Agent", "Gemini"} ELSE {})
               \cup (IF prog = "final" THEN {"ForestFireEmergencyDatabase"}
                     ELSE IF agno_importable THEN {"ForestFireDatabaseTool"}
                     ELSE {"json", "re"})]

\* the database class each constructor instantiates
DatabaseClass(prog) ==
    IF prog = "final" THEN "ForestFireEmergencyDatabase" ELSE "ForestFireDatabaseTool"

\* self.api_key: final falls back to the key in the source, forest does not
ProgramKey(prog, arg, env) ==
    IF prog = "final" THEN ResolveKey(arg, env)
    ELSE IF arg # "" THEN arg ELSE env

\* __init__ followed by _initialize_agent: a name the import did not bind
\* raises NameError; a failing Agent(...) is caught and leaves agent None
Construct(prog, module, arg, env, lib) ==
    IF DatabaseClass(prog) \notin module.names
    THEN [raised |-> TRUE,
          exc |-> "NameError: name '" \o DatabaseClass(prog) \o "' is not defined",
          api_key |-> ProgramKey(prog, arg, env), agent |-> None]
    ELSE [raised |-> FALSE, exc |-> "",
          api_key |-> ProgramKey(prog, arg, env),
          agent |-> IF module.AGNO_AVAILABLE /\ ProgramKey(prog, arg, env) # "" /\ lib.kind = "ok"
                    THEN [type |-> "Agent"]
                    ELSE None]

\* _fallback_response of forest_fire_agent.py: the branch by keyword, in
\* source order
ForestBranch(user_input) ==
    LET user_lower == Lower(user_input)
    IN  IF ContainsAny(user_lower, {"overview", "status", "situation"}) THEN "overview"
        ELSE IF ContainsAny(user_lower, {"evacuation", "shelter", "evacuee"}) THEN "evacuation"
        ELSE IF ContainsAny(user_lower, {"fire", "zone", "burning"}) THEN "fire"
        ELSE IF ContainsAny(user_lower, {"damage", "cost", "destruction"}) THEN "damage"
        ELSE IF ContainsAny(user_lower, {"personnel", "staff", "responder"}) THEN "personnel"
        ELSE "search"

\* the first table the view builder of a branch reads
ForestTable(branch) ==
    CASE branch = "evacuation" -> "cr_shelter"
      [] branch = "damage" -> "assess_baseline_type"
      [] branch = "personnel" -> "pr_person"
      [] OTHER -> "incident"

\* _fallback_response of forest_fire_agent.py.  The figures of the text are
\* left out; of the view builder's statements the first is kept, run through
\* execute_query, which answers [] when it fails.
ForestFallbackResponse(db, user_input) ==
    LET q == ExecuteQuery(db, [verb |-> "SELECT", tables |-> {ForestTable(ForestBranch(user_input))},
                               shape |-> "rows"])
    IN  [text |-> Text("", "", [kind |-> ForestBranch(user_input), rows |-> Len(q.rows)]),
         db |-> q.db]

ProgramFallback(prog, db, user_input) ==
    IF prog = "final" THEN FullFallbackResponse(db, user_input)
    ELSE ForestFallbackResponse(db, user_input)

ProgramGuidance(prog) ==
    Text("", "", [kind |-> "guidance",
                  text |-> IF prog = "final"
                           THEN "Please ask about the forest fire emergency situation."
                           ELSE "Please ask a question about the forest fire emergency situation."])

ProgramErrorLabel(prog) ==
    IF prog = "final" THEN "Error: " ELSE "Error processing query: "

\* the entry query() appends (the timestamp is left out)
PlainEntry(user_input) == [user |-> user_input, agent |-> None]

\* the try block of query(): agent.run when an agent is held, else the formatter
ProgramAnswer(prog, self, db, user_input, run, agno_available) ==
    IF self.agent # None /\ agno_available
    THEN IF run.kind = "raise"
         THEN [raised |-> TRUE, exc |-> run.exc, value |-> None, db |-> db]
         ELSE [raised |-> FALSE, exc |-> "", db |-> db,
               value |-> IF prog = "final" /\ "content" \in run.attrs
                         THEN run.content
                         ELSE Text("", "", [kind |-> "repr", text |-> "RunResponse"])]
    ELSE [raised |-> FALSE, exc |-> "",
          value |-> ProgramFallback(prog, db, user_input).text,
          db |-> ProgramFallback(prog, db, user_input).db]

\* the response of query() for the answer a of the try block
ProgramResponse(prog, a, user_input) ==
    IF ~a.raised
    THEN [value |-> a.value, db |-> a.db]
    ELSE [value |-> Prefixed(ProgramErrorLabel(prog), a.exc,
                             ProgramFallback(prog, a.db, user_input).text),
          db |-> ProgramFallback(prog, a.db, user_input).db]

\* query(user_input) of ForestFireAgent (final) and ForestFireEmergencyAgent (forest)
ProgramQuery(prog, self, db, user_input, run, agno_available) ==
    IF Strip(user_input) = ""
    THEN [returned |-> ProgramGuidance(prog), self |-> self, db |-> db]
    ELSE LET r == ProgramResponse(prog,
                      ProgramAnswer(prog, self, db, user_input, run, agno_available),
                      user_input)
         IN  [returned |-> r.value,
              self |-> [self EXCEPT !.conversation_history =
                            Append(@, [PlainEntry(user_input) EXCEPT !.agent = r.value])],
              db |-> r.db]

\* A faulty variant of QuitWords: 'clear' ends the session too.
\* C21 must tell it from QuitWords.
QuitWordsWithClear(prog) ==
    IF prog = "final" THEN {"quit", "exit", "clear"} ELSE {"quit", "exit", "bye", "clear"}

\* the words that end the loop
QuitWords(prog) ==
    IF prog = "final" THEN {"quit", "exit"} ELSE {"quit", "exit", "bye"}

\* what the loop does with one line of input
LineKind(prog, line) ==
    LET user_input == Strip(line)
    IN  IF user_input = "" THEN "ignored"
        ELSE IF Lower(user_input) \in QuitWords(prog) THEN "ended"
        ELSE IF Lower(user_input) = "clear" THEN "cleared"
        ELSE "forwarded"

\* lines the user may type
Lines ==
    { "", "  ", "quit", " EXIT ", "bye", "Clear", "clear history",
      "Show me evacuation status", "hello" }

At(prog, position) == pc = prog \o ":" \o position

InitMain ==
    /\ pc \in {prog \o ":import" : prog \in Programs}
    /\ api_key = ""
    /\ mode = "fallback"
    /\ gemini_model = None
    /\ agent = None
    /\ conversation_history = <<>>
    /\ connection = None
    /\ opened = 0
    /\ store \in {StoreSeeded, StoreEmpty}
    /\ dbReachable \in BOOLEAN
    /\ probeLog = <<>>
    /\ lastCall = NoCall

\* the module is loaded: agno can be imported or not
MainImport ==
    /\ \E prog \in Programs :
          /\ At(prog, "import")
          /\ \E agno_importable \in BOOLEAN :
                probeLog' = <<ModuleImport(prog, agno_importable)>>
          /\ pc' = prog \o ":construct"
    /\ UNCHANGED <<api_key, mode, gemini_model, agent, conversation_history,
                   connection, opened, store, dbReachable, lastCall>>

\* agent = ForestFireAgent() / ForestFireEmergencyAgent() in main()
MainConstruct ==
    /\ \E prog \in Programs :
          /\ At(prog, "construct")
          /\ \E env \in KeyEnvs, lib \in LibOutcomes :
                \E r \in {Construct(prog, probeLog[1], "", env, lib)} :
                    /\ pc' = prog \o (IF r.raised THEN ":raised" ELSE ":loop")
                    /\ api_key' = r.api_key
                    /\ agent' = r.agent
                    /\ lastCall' = [op |-> "construct", raised |-> r.raised, exc |-> r.exc,
                                    program |-> prog]
    /\ UNCHANGED <<mode, gemini_model, conversation_history, connection, opened, store,
                   dbReachable, probeLog>>

\* one turn of the while loop: input(), strip, and what follows
MainReadLine ==
    /\ \E prog \in Programs :
          /\ At(prog, "loop")
          /\ \E line \in Lines :
             \E kind \in {LineKind(prog, line)} :
             \E run \in (IF kind = "forwarded" /\ agent # None /\ probeLog[1].AGNO_AVAILABLE
                         THEN AgnoOutcomes ELSE {NoBackend}) :
                /\ kind = "forwarded" => Len(conversation_history) < MaxLog
                /\ pc' = IF kind = "ended" THEN prog \o ":ended" ELSE pc
                /\ IF kind = "forwarded"
                   THEN \E r \in {ProgramQuery(prog, Self, Db, Strip(line), run,
                                               probeLog[1].AGNO_AVAILABLE)} :
                            /\ conversation_history' = r.self.conversation_history
                            /\ SetDb(r.db)
                            /\ lastCall' = [op |-> "line", program |-> prog, line |-> line,
                                            forwarded |-> <<Strip(line)>>,
                                            returned |-> r.returned,
                                            historyBefore |-> conversation_history]
                   ELSE /\ conversation_history' =
                              IF kind = "cleared" THEN <<>> ELSE conversation_history
                        /\ UNCHANGED <<connection, opened, store>>
                        /\ lastCall' = [op |-> "line", program |-> prog, line |-> line,
                                        forwarded |-> <<>>,
                                        historyBefore |-> conversation_history]
    /\ UNCHANGED <<api_key, mode, gemini_model, agent, dbReachable, probeLog>>

\* Ctrl-C at the prompt: except KeyboardInterrupt: break
MainInterrupt ==
    /\ \E prog \in Programs :
          /\ At(prog, "loop")
          /\ pc' = prog \o ":ended"
    /\ lastCall' = [op |-> "interrupt"]
    /\ UNCHANGED <<api_key, mode, gemini_model, agent, conversation_history,
                   connection, opened, store, dbReachable, probeLog>>

NextMain ==
    \/ MainImport
    \/ MainConstruct
    \/ MainReadLine
    \/ MainInterrupt

SpecMain == InitMain /\ [][NextMain]_vars

(***************************************************************************)
(* The web controller: chat() of controllers/fire.py, which builds a       *)
(* ForestFireAgent of final_forest_fire_agent.py for every request.        *)
(***************************************************************************)
\* the methods class ForestFireAgent of final_forest_fire_agent.py defines
AgentMethods ==
    {"__init__", "_initialize_agent", "_create_tools", "_get_instructions", "query",
     "_fallback_response"}

\* request.vars.get('message', 'Hello'); <<>> is a request without the variable
MessageOf(request_vars) == IF request_vars = <<>> THEN "Hello" ELSE request_vars[1]

\* the try block of chat() once the module is imported: construct, query,
\* get_mode; q is what agent.query(user_message) gave
ChatReply(importable, q) ==
    IF ~importable
    THEN [status |-> "error", agent_mode |-> "import_error",
          message |-> "AI Agent Import Error: No module named 'final_forest_fire_agent'"]
    ELSE IF "get_mode" \notin AgentMethods
    THEN [status |-> "error", agent_mode |-> "error",
          message |-> "AI Agent Error: 'ForestFireAgent' object has no attribute 'get_mode'"]
    ELSE [status |-> "success", response |-> q.returned, agent_mode |-> "get_mode()"]

\* what a request may carry as vars.message
ChatVars == {<<>>, <<"">>, <<"Fire STATUS?">>, <<"Show me evacuation status">>, <<"Pine">>}

InitChat ==
    /\ pc = "web"
    /\ api_key = ""
    /\ mode = "fallback"
    /\ gemini_model = None
    /\ agent = None
    /\ conversation_history = <<>>
    /\ connection = None
    /\ opened = 0
    /\ store \in {StoreSeeded, StoreEmpty}
    /\ dbReachable \in BOOLEAN
    /\ probeLog = <<>>
    /\ lastCall = NoCall

\* one request to chat(): the module is reloaded, an agent is built, asked,
\* and dropped with its gateway when the request ends
Chat ==
    /\ pc = "web"
    /\ \E request_vars \in ChatVars, importable \in BOOLEAN, agno_importable \in BOOLEAN,
          lib \in LibOutcomes :
          \E c \in {Construct("final", ModuleImport("final", agno_importable), "", "", lib)} :
          \E run \in (IF c.agent # None /\ Strip(MessageOf(request_vars)) # ""
                      THEN AgnoOutcomes ELSE {NoBackend}) :
          \E q \in {ProgramQuery("final",
                                 [api_key |-> c.api_key, agent |-> c.agent,
                                  conversation_history |-> <<>>],
                                 NewDb(None, 0, store, dbReachable),
                                 MessageOf(request_vars), run, agno_importable)} :
              lastCall' = [op |-> "chat", vars |-> request_vars, importable |-> importable,
                           agno |-> agno_importable, run |-> run,
                           queried |-> IF importable THEN <<q.returned>> ELSE <<>>,
                           json |-> ChatReply(importable, q)]
    /\ UNCHANGED <<connection, opened, store, dbReachable>>
    /\ AgentUnchanged

NextChat == Chat

SpecChat == InitChat /\ [][NextChat]_vars

(***************************************************************************)
(* controllers/database_manager.py: save_database_config and               *)
(* load_database_configs, served by concurrent request threads.  store      *)
(* holds the file private/database_configs.json; pc gives each thread's     *)
(* position and its locals; probeLog counts the requests started and keeps, *)
(* per configuration name, the configuration of the last save that was      *)
(* answered with success.                                                    *)
(***************************************************************************)
\* the most save requests followed
MaxRequests == 3

Threads == {1, 2}

ConfigNames == {"default", "prod"}

ConfigPaths == {"a.db", "b.db"}

NoFile == [state |-> "missing"]

\* the file between open(config_file, 'w') and json.dump
EmptyFile == [state |-> "empty"]

JsonFile(configs) == [state |-> "json", configs |-> configs]

NoConfigs == [n \in {} |-> NoFile]

\* open(config_file, 'r') and json.load, with the except clause that gives {}
ReadConfigs(file) == IF file.state = "json" THEN file.configs ELSE NoConfigs

\* configs[config["config_name"]] = config
WithConfig(configs, config) ==
    [n \in DOMAIN configs \cup {config.config_name} |->
        IF n = config.config_name THEN config ELSE configs[n]]

Idle == [at |-> "idle"]

InitConfig ==
    /\ pc = [t \in Threads |-> Idle]
    /\ api_key = ""
    /\ mode = "fallback"
    /\ gemini_model = None
    /\ agent = None
    /\ conversation_history = <<>>
    /\ connection = None
    /\ opened = 0
    /\ store = [file |-> NoFile]
    /\ dbReachable = TRUE
    /\ probeLog = [started |-> 0, saved |-> NoConfigs]
    /\ lastCall = NoCall

ConfigUnchanged ==
    UNCHANGED <<api_key, mode, gemini_model, agent, conversation_history, connection,
                opened, dbReachable>>

\* save_database_config, lines 209-233: the request's config, the file read
\* into configs, and the config added to it
SaveRead ==
    /\ probeLog.started < MaxRequests
    /\ \E t \in Threads, name \in ConfigNames, path \in ConfigPaths :
          /\ pc[t] = Idle
          /\ pc' = [pc EXCEPT ![t] =
                        [at |-> "loaded",
                         config |-> [config_name |-> name, db_path |-> path],
                         configs |-> WithConfig(ReadConfigs(store.file),
                                                [config_name |-> name, db_path |-> path])]]
    /\ probeLog' = [probeLog EXCEPT !.started = @ + 1]
    /\ UNCHANGED <<store, lastCall>>
    /\ ConfigUnchanged

\* line 236: open(config_file, 'w') truncates the file
SaveOpen ==
    /\ \E t \in Threads :
          /\ pc[t].at = "loaded"
          /\ pc' = [pc EXCEPT ![t].at = "opened"]
    /\ store' = [store EXCEPT !.file = EmptyFile]
    /\ UNCHANGED <<probeLog, lastCall>>
    /\ ConfigUnchanged

\* lines 237-242: json.dump(configs, f), the file is closed, success is returned
SaveDump ==
    /\ \E t \in Threads :
          /\ pc[t].at = "opened"
          /\ store' = [store EXCEPT !.file = JsonFile(pc[t].configs)]
          /\ probeLog' = [probeLog EXCEPT !.saved = WithConfig(@, pc[t].config)]
          /\ lastCall' = [op |-> "save_database_config", status |-> "success",
                          config_name |-> pc[t].config.config_name]
          /\ pc' = [pc EXCEPT ![t] = Idle]
    /\ ConfigUnchanged

\* load_database_configs: the file read, {} when it is missing or not JSON
LoadConfigs ==
    /\ \E t \in Threads : pc[t] = Idle
    /\ lastCall' = [op |-> "load_database_configs", status |-> "success",
                    configs |-> ReadConfigs(store.file)]
    /\ UNCHANGED <<pc, store, probeLog>>
    /\ ConfigUnchanged

NextConfig ==
    \/ SaveRead
    \/ SaveOpen
    \/ SaveDump
    \/ LoadConfigs

SpecConfig == InitConfig /\ [][NextConfig]_vars

(***************************************************************************)
(* Properties.                                                             *)
(***************************************************************************)
CustomEntryPoints == {"execute_custom_query", "custom_query"}

RejectionMarker(op) == IF op = "execute_custom_query" THEN ForestMarker ELSE CovidMarker

\* C1: a custom query whose first token, trimmed and upper-cased, is not
\* exactly SELECT (a token that only begins with SELECT included) is answered
\* with the "Only SELECT queries are allowed" marker, is never passed to
\* execute_query, and leaves the store unchanged.
C1_RejectsAllButExactSelect ==
    (lastCall.op \in CustomEntryPoints /\ Upper(FirstToken(lastCall.input)) # "SELECT")
        => /\ lastCall.returned = RejectionMarker(lastCall.op)
           /\ lastCall.dbCalls = <<>>
           /\ store = lastCall.storeBefore

\* C2: query(text) never raises to its caller and returns a string, in every
\* mode and for every outcome of the backend call and of the database queries.
C2_QueryReturnsString ==
    lastCall.op = "query" => (~lastCall.raised /\ IsStr(lastCall.returned))

DiagnosticLabels == {"Error: ", DirectApiError, GeminiAiError}

FormatterKinds == {"overview", "evacuation", "help"}

\* C3: when the backend call of a query raises, the returned text is a
\* diagnostic label (with the exception's text) followed by exactly what
\* _fallback_response gives for the same input; it is never an error alone.
C3_ErrorThenFormatterOutput ==
    (lastCall.op = "query" /\ Strip(lastCall.input) # "" /\ lastCall.backend.kind = "raise")
        => /\ ~lastCall.raised
           /\ IsStr(lastCall.returned)
           /\ lastCall.returned.label \in DiagnosticLabels
           /\ lastCall.returned.detail = ExceptionText(lastCall.backend, Url(api_key))
           /\ lastCall.returned.body =
                  FallbackResponse(lastCall.modeBefore, Db, lastCall.input).text.body
           /\ lastCall.returned.body.kind \in FormatterKinds

C3_Witness ==
    /\ lastCall.op = "query"
    /\ lastCall.dispatchRaised
    /\ lastCall.backend.kind = "raise"
    /\ lastCall.returned.label = "Error: "
    /\ lastCall.returned.body.kind = "overview"

ProbeOrder == <<"direct", "sdk", "agno">>

\* the mode a backend's successful probe commits
ModeOf(b) ==
    CASE b = "direct" -> "gemini_direct_api"
      [] b = "sdk" -> "google_ai"
      [] OTHER -> "agno"

LastProbe == probeLog[Len(probeLog)]

\* C4: the backends are probed in the order direct HTTP API, vendor SDK, agent
\* framework; a backend is probed only after every earlier one failed, none
\* after one succeeded; the first success is committed, and the mode is
\* "fallback" exactly when all three failed.  (A backend whose library is
\* missing counts as a failed probe.)
C4_OrderedFirstSuccessWins ==
    /\ Len(probeLog) <= Len(ProbeOrder)
    /\ \A i \in 1..Len(probeLog) : probeLog[i].backend = ProbeOrder[i]
    /\ \A i \in 1..(Len(probeLog) - 1) : ~ProbeSucceeded(probeLog[i])
    /\ (probeLog # <<>> /\ ProbeSucceeded(LastProbe)) => pc = "ready"
    /\ pc = "ready" =>
          /\ probeLog # <<>>
          /\ IF ProbeSucceeded(LastProbe)
             THEN mode = ModeOf(LastProbe.backend)
             ELSE Len(probeLog) = Len(ProbeOrder) /\ mode = "fallback"
          /\ mode = "fallback" <=>
                 /\ Len(probeLog) = Len(ProbeOrder)
                 /\ \A i \in 1..Len(probeLog) : ~ProbeSucceeded(probeLog[i])

C4_Witness ==
    /\ pc = "ready"
    /\ mode = "agno"
    /\ Len(probeLog) = Len(ProbeOrder)
    /\ probeLog[1].outcome.kind = "reply"
    /\ probeLog[2].outcome.kind = "raise"

\* where selection stands after backend b's probe failed
AfterFailed(b) ==
    CASE b = "direct" -> {"probe_sdk"}
      [] b = "sdk" -> {"probe_agno"}
      [] OTHER -> {"set_fallback", "ready"}

\* C5: a failing probe never lets an exception out of construction: after a
\* non-200 status or an exception of the direct-API probe, and after a failing
\* vendor-SDK or agent-framework initialisation, selection goes on with the
\* next candidate.
C5_FailedProbeContinues ==
    /\ pc # "raised"
    /\ (probeLog # <<>> /\ ~ProbeSucceeded(LastProbe)) => pc \in AfterFailed(LastProbe.backend)

C5_Witness ==
    /\ pc = "ready"
    /\ mode = "google_ai"
    /\ probeLog[1].outcome.kind = "reply"
    /\ probeLog[1].outcome.status_code = 500

Modes == {"gemini_direct_api", "google_ai", "agno", "fallback"}

C6_Safe ==
    /\ pc \in {"probe_direct", "probe_sdk", "probe_agno", "set_fallback", "ready"}
    /\ pc = "ready" => mode \in Modes
    /\ (pc = "ready" /\ \A i \in 1..Len(probeLog) : probeLog[i].outcome = Unavailable)
           => mode = "fallback"
    /\ (lastCall.op = "query" /\ Strip(lastCall.input) # "" /\ lastCall.modeBefore = "fallback")
           => /\ ~lastCall.raised
              /\ lastCall.events = <<"fallback">>
              /\ lastCall.returned = FallbackResponse("fallback", Db, lastCall.input).text
              /\ lastCall.returned.body.kind \in FormatterKinds

\* C6: selection always ends, in one of the four modes; with no network and
\* no AI library it ends in "fallback", and in mode "fallback" every non-empty
\* query is answered by _fallback_response alone, with no HTTP call and no
\* vendor or agent-framework call.
C6_EndsInOneOfFourModes == [](C6_Safe) /\ <>(pc = "ready")

C6_Witness ==
    /\ pc = "ready"
    /\ mode = "fallback"
    /\ \A i \in 1..Len(probeLog) : probeLog[i].outcome = Unavailable
    /\ lastCall.op = "query"
    /\ lastCall.returned.body.kind = "evacuation"

\* C7: once construction is over, no step changes agent.mode, the queries
\* whose dispatch failed and went through the except branch included.
C7_ModeFixedAfterConstruction == [][pc = "ready" => mode' = mode]_vars

C7_Witness ==
    /\ pc = "ready"
    /\ lastCall.op = "query"
    /\ lastCall.dispatchRaised
    /\ mode = "agno"

\* C8: query("") and query of a whitespace-only string return the guidance
\* text and do nothing else: no backend call, no database query, the mode and
\* the conversation log as they were.
C8_BlankInputOnlyGuidance ==
    (lastCall.op = "query" /\ Strip(lastCall.input) = "")
        => /\ lastCall.returned = Guidance
           /\ ~lastCall.raised
           /\ lastCall.events = <<>>
           /\ lastCall.dbCalls = <<>>
           /\ mode = lastCall.modeBefore
           /\ conversation_history = lastCall.historyBefore

C8_Witness ==
    /\ lastCall.op = "query"
    /\ lastCall.input # ""
    /\ Strip(lastCall.input) = ""
    /\ mode = "gemini_direct_api"
    /\ conversation_history # <<>>

\* C9: after a query with non-empty input, the response stored in the entry
\* that call appended equals what the call returned, on the normal path and on
\* the except path.
C9_StoredResponseIsReturned ==
    (lastCall.op = "query" /\ Strip(lastCall.input) # "")
        => /\ Len(conversation_history) = Len(lastCall.historyBefore) + 1
           /\ SubSeq(conversation_history, 1, Len(lastCall.historyBefore)) = lastCall.historyBefore
           /\ conversation_history[Len(conversation_history)].user = lastCall.input
           /\ conversation_history[Len(conversation_history)].agent = lastCall.returned

C9_Witness ==
    /\ lastCall.op = "query"
    /\ lastCall.dispatchRaised
    /\ conversation_history # <<>>
    /\ IsStr(conversation_history[Len(conversation_history)].agent)
    /\ conversation_history[Len(conversation_history)].agent.label = "Error: "

ErrorFlagged(rows) == Len(rows) = 1 /\ "error" \in DOMAIN rows[1]

\* C10: execute_query never raises and never retries: a failed connection or
\* a failing statement is attempted once, and the result is then an empty or
\* an error-flagged list.
C10_OneAttemptNoRaise ==
    lastCall.op \in {"execute_query", "covid_execute_query"}
        => /\ ~lastCall.raised
           /\ Len(lastCall.dbCalls) = 1
           /\ lastCall.dbCalls[1].connects <= 1
           /\ lastCall.dbCalls[1].executes <= 1
           /\ ~lastCall.dbCalls[1].ok
                 => (lastCall.returned = <<>> \/ ErrorFlagged(lastCall.returned))

C10_Witness ==
    /\ lastCall.op = "execute_query"
    /\ ~lastCall.dbCalls[1].ok
    /\ lastCall.dbCalls[1].executes = 1
    /\ lastCall.dbCalls[1].stmt.verb = "SELECT"
    /\ lastCall.returned = <<>>

\* the three queries of the overview found no row to count: the tables are
\* empty, or the statements failed
NothingToCount ==
    \/ lastCall.storeBefore \in {StoreEmpty, StoreNoSchema}
    \/ \A i \in 1..Len(lastCall.dbCalls) : ~lastCall.dbCalls[i].ok

\* C11: get_forest_fire_overview on empty case, person and location tables
\* (or when their queries return no rows) returns without raising, and every
\* count of casualties_and_impact and population_status is a number, zero or
\* its default, never null.
C11_EmptyTablesGiveZeros ==
    (lastCall.op = "overview" /\ NothingToCount)
        => /\ ~lastCall.raised
           /\ \A f \in DOMAIN lastCall.returned.casualties_and_impact :
                 lastCall.returned.casualties_and_impact[f] = PyInt(0)
           /\ lastCall.returned.population_status =
                 [total_registered_persons |-> PyInt(0),
                  affected_locations |-> PyInt(0),
                  population_at_risk |-> PyInt(12500),
                  evacuation_zones |-> PyInt(5),
                  shelter_capacity |-> PyInt(1200)]

CountStatus(rows, status) ==
    PyInt(Cardinality({i \in 1..Len(rows) : rows[i].illness_status = status}))

\* C12: whatever the case table holds, the overview reports
\* total_affected_persons = number of case rows, casualties = number of
\* 'Deceased' rows, evacuated_safely = number of 'Recovered' rows.
C12_CountsMatchCaseTable ==
    (lastCall.op = "overview" /\ lastCall.dbCalls[1].ok)
        => LET rows == lastCall.storeBefore["disease_case"]
               impact == lastCall.returned.casualties_and_impact
           IN  /\ impact.total_affected_persons = PyInt(Len(rows))
               /\ impact.casualties = CountStatus(rows, "Deceased")
               /\ impact.evacuated_safely = CountStatus(rows, "Recovered")

\* whether text column value v holds term, letter case apart
Holds(v, term) == v # "NULL" /\ Contains(Lower(v), Lower(term))

\* the first ten rows of table t of the store before the call that satisfy
\* Hit, or no row when the table cannot be read
FirstTenOf(t, Hit(_)) ==
    IF dbReachable /\ t \in DOMAIN lastCall.storeBefore
    THEN Limit(SelectSeq(lastCall.storeBefore[t], Hit), 10)
    ELSE <<>>

\* C13: search_fire_data(term) returns three lists of at most 10 rows, each
\* the matches of its own table whatever the other two hold, and
\* summary.total_results is the sum of the three lengths.
C13_ThreeIndependentLists ==
    lastCall.op = "search"
        => LET found == lastCall.returned
               term == lastCall.input
           IN  /\ Len(found.persons_found) <= 10
               /\ Len(found.locations_found) <= 10
               /\ Len(found.cases_found) <= 10
               /\ found.persons_found =
                      FirstTenOf("pr_person", LAMBDA r : \/ Holds(r.first_name, term)
                                                         \/ Holds(r.last_name, term)
                                                         \/ Holds(r.pe_label, term))
               /\ found.locations_found =
                      FirstTenOf("gis_location", LAMBDA r : Holds(r.name, term))
               /\ found.cases_found =
                      FirstTenOf("disease_case", LAMBDA r : Holds(r.case_number, term))
               /\ found.summary.total_results =
                      Len(found.persons_found) + Len(found.locations_found)
                          + Len(found.cases_found)

C13_Witness ==
    /\ lastCall.op = "search"
    /\ lastCall.input = "Pine"
    /\ Len(lastCall.returned.locations_found) = 1
    /\ lastCall.returned.locations_found[1].name = "Pine Ridge Township"
    /\ lastCall.returned.persons_found = <<>>
    /\ lastCall.storeBefore["pr_person"] # <<>>
    /\ lastCall.returned.summary.total_results = 1

FormatterOps == {"fallback_response", "fallback_response_clean"}

\* whether the lower-cased input of the last call holds a word of the set
Mentions(words) == ContainsAny(Lower(lastCall.input), words)

HoldsKey(v) ==
    /\ IsStr(v)
    /\ \/ Contains(v.label, api_key)
       \/ Contains(v.detail, api_key)
       \/ ("text" \in DOMAIN v.body /\ Contains(v.body.text, api_key))

\* C16: no text returned by query() and no stored conversation entry holds
\* the API key, in any mode and for any outcome of the backend call, a failed
\* HTTP request whose URL carries the key included.
C16_KeyNeverInText ==
    /\ lastCall.op = "query" => ~HoldsKey(lastCall.returned)
    /\ \A i \in 1..Len(conversation_history) : ~HoldsKey(conversation_history[i].agent)

StatementsAreReads ==
    lastCall.op \in {"query", "tool_query"}
        => \A i \in 1..Len(lastCall.dbCalls) :
              lastCall.dbCalls[i].ok => lastCall.dbCalls[i].stmt.verb = "SELECT"

\* C17: no query() call, in any mode and whatever the text, changes the
\* contents of the store: every statement the agent runs during a query,
\* those of its execute_custom_query tool included, is a read.
C17_QueriesOnlyRead == [](StatementsAreReads) /\ [][pc = "ready" => store' = store]_vars

C17_Witness ==
    /\ lastCall.op = "tool_query"
    /\ lastCall.input = "SELECT * FROM pr_person"
    /\ Len(lastCall.dbCalls) = 1
    /\ lastCall.dbCalls[1].ok
    /\ Len(lastCall.returned) = 2

\* C18: a view builder (overview, evacuees, zones, resources, search with
\* the same term) called twice with nothing in between returns the same
\* result both times, the generation timestamp apart.
C18_SameViewTwice ==
    (/\ lastCall.op \in ViewOps
     /\ lastCall.prev.op = lastCall.op
     /\ lastCall.prev.input = lastCall.input)
        => lastCall.returned = lastCall.prev.returned

C18_Witness ==
    /\ lastCall.op = "overview"
    /\ lastCall.prev.op = "overview"
    /\ lastCall.connectionBefore # None
    /\ "disease_case" \in DOMAIN lastCall.storeBefore
    /\ lastCall.storeBefore["disease_case"] # <<>>
    /\ lastCall.returned = lastCall.prev.returned
    /\ lastCall.dbCalls # <<>>

IsZero(x) == x = PyInt(0) \/ x = Float(0)

\* the field f of dictionary d is present and holds zero
PresentZero(d, f) == f \in DOMAIN d /\ IsZero(d[f])

\* C19: every rate a view builder computes (occupancy_rate,
\* hospitalization_rate, icu_rate, positivity_rate) is present in the result
\* and equal to 0 when its denominator is 0 or absent.
C19_ZeroDenominatorZeroRate ==
    /\ (lastCall.op = "get_evacuation_status"
        /\ lastCall.returned.shelter_statistics.total_capacity = PyInt(0))
          => PresentZero(lastCall.returned.shelter_statistics, "occupancy_rate")
    /\ (lastCall.op = "get_incident_impact_data" /\ lastCall.input = <<>>)
          => PresentZero(lastCall.returned.statistics, "hospitalization_rate")
    /\ (lastCall.op = "get_hospitalization_trends" /\ lastCall.input.total = 0)
          => /\ PresentZero(lastCall.returned, "hospitalization_rate")
             /\ PresentZero(lastCall.returned, "icu_rate")
    /\ (lastCall.op = "get_covid_overview" /\ lastCall.input[1] \in {None, PyInt(0)})
          => PresentZero(lastCall.returned, "positivity_rate")

\* C20: for one gateway instance under any sequence of connect,
\* execute_query and disconnect: execute_query opens a connection only when
\* none is held and otherwise reuses the held one; at most one connection
\* opened by the instance is open at any time; after disconnect none is open.
C20_AtMostOneConnection ==
    /\ lastCall.op = "execute_query"
          => /\ \A i \in 1..Len(lastCall.dbCalls) :
                    lastCall.dbCalls[i].connects = 1 <=> lastCall.connectionBefore = None
             /\ lastCall.connectionBefore # None => opened = lastCall.openedBefore
    /\ opened <= 1
    /\ lastCall.op = "disconnect" => opened = 0

\* C24: after any sequence of query() and clear operations the log holds one
\* entry per non-empty query since the last clear, in call order, each with
\* the input text of its call, and once query() has returned no entry is
\* left pending (response None).
C24_LogHoldsAnsweredQueries ==
    /\ (lastCall.op = "query" /\ Strip(lastCall.input) # "")
          => /\ Len(conversation_history) = Len(lastCall.historyBefore) + 1
             /\ SubSeq(conversation_history, 1, Len(lastCall.historyBefore)) = lastCall.historyBefore
             /\ conversation_history[Len(conversation_history)].user = lastCall.input
    /\ (lastCall.op = "query" /\ Strip(lastCall.input) = "")
          => conversation_history = lastCall.historyBefore
    /\ lastCall.op = "clear" => conversation_history = <<>>
    /\ pc = "ready" => \A i \in 1..Len(conversation_history) : conversation_history[i].agent # None

Ended == {prog \o ":ended" : prog \in Programs}

\* what C21 asks of the line just read, the words that end the loop being ws
LineHandled(ws) ==
    lastCall.op = "line"
        => LET u == Lower(Strip(lastCall.line))
           IN  /\ u \in ws <=> pc \in Ended
               /\ u \in ws \cup {""} => conversation_history = lastCall.historyBefore
               /\ u = "clear" => conversation_history = <<>>
               /\ u \in ws \cup {"", "clear"} => lastCall.forwarded = <<>>
               /\ u \notin ws \cup {"", "clear"}
                     => /\ lastCall.forwarded = <<Strip(lastCall.line)>>
                        /\ Len(conversation_history) = Len(lastCall.historyBefore) + 1

\* C21 as stated: each line is exactly one of empty (ignored), 'quit'/'exit'
\* in any letter case (the loop ends), 'clear' (the log becomes empty), or a
\* query forwarded to agent.query(); the first three kinds are never forwarded
\* and add no log entry.
C21_QuitExitOnly == LineHandled({"quit", "exit"})

\* C21, amended: the same with the line stripped first and with the words
\* that end the loop being 'quit' and 'exit' in final_forest_fire_agent.py
\* and 'quit', 'exit' and 'bye' in forest_fire_agent.py; once the loop has
\* ended no further line is read.
C21_EachLineOneKind ==
    /\ [](lastCall.op = "line"
            => LineHandled(IF lastCall.program = "forest"
                           THEN {"quit", "exit", "bye"} ELSE {"quit", "exit"}))
    /\ [][pc \notin Ended]_vars

C21_Witness ==
    /\ lastCall.op = "line"
    /\ lastCall.program = "forest"
    /\ lastCall.line = "bye"
    /\ pc = "forest:ended"
    /\ lastCall.historyBefore # <<>>
    /\ conversation_history = lastCall.historyBefore

\* C22: _fallback_response has no side effect on agent state: for every
\* input the conversation log, the backend mode and the credential are as
\* they were before the call, and two calls on the same input with the store
\* unchanged select the same branch.
C22_FormatterLeavesAgentAlone ==
    /\ lastCall.op \in FormatterOps \cup {"fallback_response_twice"}
          => /\ conversation_history = lastCall.selfBefore.conversation_history
             /\ mode = lastCall.selfBefore.mode
             /\ api_key = lastCall.selfBefore.api_key
             /\ store = lastCall.storeBefore
    /\ lastCall.op = "fallback_response_twice"
          => lastCall.first.body.kind = lastCall.second.body.kind

C22_Witness ==
    /\ lastCall.op = "fallback_response_twice"
    /\ lastCall.variant = "final"
    /\ lastCall.input = "Pine"
    /\ lastCall.connectionBefore = None
    /\ connection # None
    /\ lastCall.first.body.kind = "search"
    /\ lastCall.second.body.kind = "search"

\* the reply r carries candidates[0].content.parts[0].text
CarriesText(r) ==
    /\ r.status_code = 200
    /\ "candidates" \in DOMAIN r.json
    /\ r.json.candidates # <<>>
    /\ "content" \in DOMAIN r.json.candidates[1]
    /\ "parts" \in DOMAIN r.json.candidates[1].content
    /\ r.json.candidates[1].content.parts # <<>>
    /\ "text" \in DOMAIN r.json.candidates[1].content.parts[1]

\* C23: in direct-HTTP-API mode a reply with a non-200 status, or with status
\* 200 and no candidates[0].content.parts[0].text, never yields a backend
\* answer: the text returned is a notice followed by the Response Formatter's
\* output for the same input; only a 200 reply carrying that text yields the
\* backend's text.
C23_OnlyFullEnvelopeAnswers ==
    (/\ lastCall.op = "query"
     /\ Strip(lastCall.input) # ""
     /\ lastCall.modeBefore = "gemini_direct_api"
     /\ lastCall.backend.kind = "reply")
        => IF CarriesText(lastCall.backend)
           THEN /\ lastCall.returned.body.kind = "ai"
                /\ lastCall.returned.body.text =
                       lastCall.backend.json.candidates[1].content.parts[1].text
           ELSE /\ lastCall.returned.label \in {ApiUnavailable, DirectApiError}
                /\ lastCall.returned.body.kind \in FormatterKinds
                /\ lastCall.returned.body =
                       FallbackResponse(lastCall.modeBefore, Db, lastCall.input).text.body

C23_Witness ==
    /\ lastCall.op = "query"
    /\ lastCall.modeBefore = "gemini_direct_api"
    /\ lastCall.backend.kind = "reply"
    /\ lastCall.backend.status_code = 200
    /\ "candidates" \in DOMAIN lastCall.backend.json
    /\ ~CarriesText(lastCall.backend)
    /\ lastCall.returned.label = ApiUnavailable
    /\ lastCall.returned.body.kind = "overview"

\* C25: when the agent framework cannot be imported, constructing
\* ForestFireEmergencyAgent still succeeds, in fallback mode (no agent
\* handle), and every non-empty query is answered from the database through
\* _fallback_response.
C25_ConstructsWithoutFramework ==
    /\ (/\ lastCall.op = "construct"
        /\ lastCall.program = "forest"
        /\ ~probeLog[1].AGNO_AVAILABLE)
          => /\ ~lastCall.raised
             /\ pc = "forest:loop"
             /\ agent = None
    /\ (/\ lastCall.op = "line"
        /\ lastCall.program = "forest"
        /\ ~probeLog[1].AGNO_AVAILABLE
        /\ lastCall.forwarded # <<>>)
          => /\ lastCall.returned.label = ""
             /\ lastCall.returned.body.kind = ForestBranch(lastCall.forwarded[1])

\* C26: for every message for which ForestFireAgent.query returns a text,
\* chat() returns a JSON object with status 'success' that carries that text
\* and the agent's operating mode; status 'error' comes only when the agent
\* module cannot be imported or the agent itself fails.
C26_ChatCarriesQueryText ==
    (lastCall.op = "chat" /\ lastCall.queried # <<>> /\ IsStr(lastCall.queried[1]))
        => /\ lastCall.json.status = "success"
           /\ lastCall.json.response = lastCall.queried[1]
           /\ "agent_mode" \in DOMAIN lastCall.json

\* C27: the example queries of the fallback help text reach the branch of
\* the topic they name: "What's the current fire situation?" the overview
\* branch, "Show me evacuation status" the evacuation branch.
C27_HelpExamplesReachTheirBranch ==
    lastCall.op = "fallback_response"
        => /\ lastCall.input = "What's the current fire situation?"
                 => lastCall.returned.body.kind = "overview"
           /\ lastCall.input = "Show me evacuation status"
                 => lastCall.returned.body.kind = "evacuation"

\* how many of the lists of the result hold the row
ListsHolding(result, person) ==
    Cardinality({c \in {"evacuees", "response_staff", "other_persons"} :
                    \E i \in 1..Len(result[c]) : result[c][i] = person})

\* C29: get_affected_persons does not fail and places every person row in
\* exactly one of evacuees, response_staff and other_persons, rows with a
\* null comments column included, so that evacuee_count + staff_count + the
\* number of other_persons equals total_persons.
C29_EveryPersonInOneList ==
    lastCall.op = "get_affected_persons"
        => /\ ~lastCall.returned.raised
           /\ \A i \in 1..Len(lastCall.input) :
                  ListsHolding(lastCall.returned, lastCall.input[i]) = 1
           /\ lastCall.returned.evacuee_count + lastCall.returned.staff_count
                + Len(lastCall.returned.other_persons) = lastCall.returned.total_persons
           /\ lastCall.returned.total_persons = Len(lastCall.input)

\* whether the last call made the outside call e
Made(e) == \E i \in 1..Len(lastCall.events) : lastCall.events[i] = e

\* C28: after construction the mode and the backend handles agree: mode
\* 'google_ai' implies a vendor model handle, mode 'agno' an agent handle;
\* query() calls the vendor or the agent-framework backend only when the
\* matching handle is set, and uses the Response Formatter otherwise.
C28_ModeMatchesHandles ==
    /\ (pc = "ready" /\ mode = "google_ai") => gemini_model # None
    /\ (pc = "ready" /\ mode = "agno") => agent # None
    /\ (lastCall.op = "query" /\ Strip(lastCall.input) # "")
          => /\ Made("generate_content") => (lastCall.modeBefore = "google_ai" /\ gemini_model # None)
             /\ Made("agent_run") => (lastCall.modeBefore = "agno" /\ agent # None)
             /\ (~Made("generate_content") /\ ~Made("agent_run") /\ ~Made("http_post"))
                   => /\ lastCall.events = <<"fallback">>
                      /\ lastCall.returned =
                             FallbackResponse(lastCall.modeBefore, Db, lastCall.input).text

C28_Witness ==
    /\ pc = "ready"
    /\ mode = "agno"
    /\ agent # None
    /\ gemini_model = None
    /\ lastCall.op = "query"
    /\ Made("agent_run")

\* C30: after any interleaving of save_database_config requests,
\* load_database_configs returns every configuration name that was saved,
\* each with the value of its last save: a save of one name never removes or
\* overwrites a configuration saved under another name, overlapping saves
\* included.
C30_NoSavedConfigLost ==
    (/\ lastCall.op = "load_database_configs"
     /\ \A t \in Threads : pc[t] = Idle)
        => \A n \in DOMAIN probeLog.saved :
              /\ n \in DOMAIN lastCall.configs
              /\ lastCall.configs[n] = probeLog.saved[n]

====
